---- MODULE Spec2Model ----
(***************************************************************************)
(* Model of spyder/widgets/collectionseditor.py: the table model           *)
(* ReadOnlyCollectionsModel / CollectionsModel that adapts a Python        *)
(* collection (list, tuple, set, frozenset, dict or an arbitrary object)   *)
(* to rows with lazily loaded size and type metadata.                      *)
(***************************************************************************)
EXTENDS Integers, Sequences, FiniteSets, TLC

(***************************************************************************)
(* Program constants.                                                      *)
(***************************************************************************)
LARGE_NROWS == 100
ROWS_TO_LOAD == 50

(***************************************************************************)
(* Bounds of the model.                                                    *)
(***************************************************************************)
\* Small collections have 0..MaxSmall entries.
MaxSmall == 3
\* Explicit number_to_fetch arguments of fetchMore are 1..MaxFetch.
MaxFetch == 1
\* Number of operations on a table model after its construction.
MaxOps == 2

Min(a, b) == IF a <= b THEN a ELSE b

(***************************************************************************)
(* Python values.  Every Python object of the model is a record            *)
(*   [k |-> its Python type, n |-> an integer payload, s |-> a sequence]   *)
(*   int    n         the integer n                                        *)
(*   str    s         the characters of the string                         *)
(*   list   n         the list [0] * n                                     *)
(*   tuple  n         the one-element shape tuple (n,)                     *)
(*   array  n         a one-dimensional numpy array with n >= 2 elements   *)
(*   natlist s        the list natsort() returns: chunks, each int or str  *)
(*   method           a bound method                                       *)
(*   object           an instance of a class without special support       *)
(***************************************************************************)
PyInt(n) == [k |-> "int", n |-> n, s |-> <<>>]
PyStr(s) == [k |-> "str", n |-> 0, s |-> s]
PyList(n) == [k |-> "list", n |-> n, s |-> <<>>]
PyTuple(n) == [k |-> "tuple", n |-> n, s |-> <<>>]
PyArray(n) == [k |-> "array", n |-> n, s |-> <<>>]
PyNatList(chunks) == [k |-> "natlist", n |-> 0, s |-> chunks]
PyMethod == [k |-> "method", n |-> 0, s |-> <<>>]
PyObject == [k |-> "object", n |-> 0, s |-> <<>>]

\* The characters of the model in code point order.  "^2" stands for the
\* one character SUPERSCRIPT TWO (U+00B2).
CharOrder == <<" ", "(", ")", ",", "0", "1", "2", "3", "4", "5", "6", "7",
               "8", "9", "A", "B", "[", "]", "_", "a", "b", "c", "d", "e",
               "f", "h", "i", "j", "l", "m", "n", "o", "r", "s", "t", "y",
               "^2">>
\* ord(c), up to the code points that are not characters of the model.
OrdOf ==
    LET f == [c \in {CharOrder[i] : i \in 1..Len(CharOrder)} |->
                 CHOOSE i \in 1..Len(CharOrder) : CharOrder[i] = c]
    IN  f @@ f
Ord(c) == OrdOf[c]
\* The decimal digits
Digits == <<"0", "1", "2", "3", "4", "5", "6", "7", "8", "9">>
\* c is matched by [0-9]
isdigit(c) == \E i \in 1..Len(Digits) : Digits[i] = c
DigitVal(c) == (CHOOSE i \in 1..Len(Digits) : Digits[i] = c) - 1
\* c.isdigit(): true also of digits that are not decimal digits
str_isdigit(c) == isdigit(c) \/ c = "^2"
lower(c) == IF c = "A" THEN "a" ELSE IF c = "B" THEN "b" ELSE c
LowerStr(s) == [i \in 1..Len(s) |-> lower(s[i])]

\* int(t) for a run of digits t.
RECURSIVE IntOfDigits(_)
IntOfDigits(t) ==
    IF t = <<>> THEN 0
    ELSE 10 * IntOfDigits(SubSeq(t, 1, Len(t) - 1)) + DigitVal(t[Len(t)])

\* str(n) for an integer n >= 0.
RECURSIVE DigitsOfInt(_)
DigitsOfInt(n) ==
    IF n < 10 THEN <<Digits[n + 1]>>
    ELSE Append(DigitsOfInt(n \div 10), Digits[(n % 10) + 1])

\* Three-way comparison of integers.
CmpInt(a, b) == IF a < b THEN "lt" ELSE IF a > b THEN "gt" ELSE "eq"

\* Three-way comparison of two strings (sequences of characters) by code point.
RECURSIVE CmpChars(_, _)
CmpChars(a, b) ==
    IF a = b THEN "eq"
    ELSE IF a = <<>> THEN "lt"
    ELSE IF b = <<>> THEN "gt"
    ELSE IF Ord(Head(a)) # Ord(Head(b)) THEN CmpInt(Ord(Head(a)), Ord(Head(b)))
    ELSE CmpChars(Tail(a), Tail(b))

\* Python's ordering of two objects: "lt", "eq", "gt", or "err" when the
\* comparison raises (TypeError for mixed types, ValueError for the truth
\* value of an array comparison).
RECURSIVE PyCmp(_, _)
RECURSIVE CmpSeqs(_, _)
CmpSeqs(a, b) ==
    IF a = <<>> /\ b = <<>> THEN "eq"
    ELSE IF a = <<>> THEN "lt"
    ELSE IF b = <<>> THEN "gt"
    ELSE LET c == PyCmp(Head(a), Head(b))
         IN  IF c = "eq" THEN CmpSeqs(Tail(a), Tail(b)) ELSE c
PyCmp(a, b) ==
    IF a.k # b.k THEN "err"
    ELSE IF a.k = "int" THEN CmpInt(a.n, b.n)
    ELSE IF a.k = "str" THEN CmpChars(a.s, b.s)
    ELSE IF a.k = "list" THEN CmpInt(a.n, b.n)
    ELSE IF a.k = "tuple" THEN CmpInt(a.n, b.n)
    ELSE IF a.k = "natlist" THEN CmpSeqs(a.s, b.s)
    ELSE "err"

(***************************************************************************)
(* natsort(s): the key of the natural order.                               *)
(***************************************************************************)
\* re.split('([0-9]+)', s): the text chunks and digit runs of s, alternating,
\* first and last a (possibly empty) text chunk.  cur is the chunk being
\* collected, indigits tells whether it is a digit run.
RECURSIVE SplitDigits(_, _, _)
SplitDigits(s, cur, indigits) ==
    IF s = <<>> THEN (IF indigits THEN <<cur, <<>> >> ELSE <<cur>>)
    ELSE IF isdigit(Head(s)) = indigits
         THEN SplitDigits(Tail(s), Append(cur, Head(s)), indigits)
         ELSE <<cur>> \o SplitDigits(Tail(s), <<Head(s)>>, ~indigits)

\* t.isdigit() of a chunk t
IsDigitRun(t) == t # <<>> /\ \A i \in 1..Len(t) : str_isdigit(t[i])

\* int(t) raises ValueError: t is not a run of decimal digits.
IntRaises(t) == \E i \in 1..Len(t) : ~isdigit(t[i])

\* What leaves a call that raises an exception of class cls.
PyRaises(cls) == [k |-> "raises", n |-> 0, s |-> <<cls>>]

\* A mistake in natsort: a digit run stays text.
natsort_Ordinal(x) ==
    IF x.k # "str" THEN x
    ELSE LET parts == SplitDigits(x.s, <<>>, FALSE)
         IN  PyNatList([i \in 1..Len(parts) |-> PyStr(LowerStr(parts[i]))])

\* natsort(x): x itself when it is no string, else the list of its chunks,
\* digit runs as integers and the others in lower case; the ValueError of
\* int() when it is called on a chunk that is no decimal number.
natsort(x) ==
    IF x.k # "str" THEN x
    ELSE LET parts == SplitDigits(x.s, <<>>, FALSE)
         IN  IF \E i \in 1..Len(parts) :
                    IsDigitRun(parts[i]) /\ IntRaises(parts[i])
             THEN PyRaises("ValueError")
             ELSE PyNatList([i \in 1..Len(parts) |->
                      IF IsDigitRun(parts[i])
                      THEN PyInt(IntOfDigits(parts[i]))
                      ELSE PyStr(LowerStr(parts[i]))])

(***************************************************************************)
(* Python's stable sort.                                                   *)
(***************************************************************************)
\* The sequence f with its elements evaluated.
List(f) == f \o <<>>

Reverse(l) == List([i \in 1..Len(l) |-> l[Len(l) + 1 - i]])

\* The sort keys of the list l under sort_key ("natsort" or "None").
SortKeys(l, sort_key) ==
    List([i \in 1..Len(l) |->
             IF sort_key = "natsort" THEN natsort(l[i]) ELSE l[i]])

\* A sort of the keys K raises when two of them cannot be compared.  Whether
\* two objects can be compared depends on their types alone, and a sort
\* compares the elements that end up next to each other: it raises exactly
\* when two neighbours of K cannot be compared.
SortRaises(K) ==
    \E i \in 1..(Len(K) - 1) : PyCmp(K[i], K[i + 1]) = "err"

\* The key function raised for an element: the keys are all computed before
\* the first comparison.
KeyRaises(K) == \E i \in 1..Len(K) : K[i].k = "raises"

\* The order of a successful stable sort of the keys K: position r of the
\* result holds the element of index SortedOrder(K, reverse)[r]; with reverse
\* the keys are descending and equal keys keep their order.  Keys that come
\* strictly in the opposite order are one run, which is reversed.
SortedOrder(K, reverse) ==
    LET want == IF reverse THEN "gt" ELSE "lt"
        Before(i, j) ==
            LET c == PyCmp(K[i], K[j])
            IN  \/ c = want
                \/ c = "eq" /\ i < j
    IN  IF \A i \in 1..(Len(K) - 1) : PyCmp(K[i + 1], K[i]) = want
        THEN List([i \in 1..Len(K) |-> Len(K) + 1 - i])
        ELSE SortSeq(List([i \in 1..Len(K) |-> i]),
                     LAMBDA i, j : Before(i, j))

\* The list l in the order given.
Permute(l, order) == List([r \in 1..Len(order) |-> l[order[r]]])

\* sorted(l, key=sort_key, reverse=reverse) when no comparison raises.
Sorted(l, reverse, sort_key) ==
    Permute(l, SortedOrder(SortKeys(l, sort_key), reverse))

\* sort_against(list1, list2, reverse, sort_key): list1 in the order of
\* sorted(list2); zip() cuts both lists to the shorter one; list1 itself is
\* returned when a comparison raises.
sort_against(list1, list2, reverse, sort_key) ==
    LET m == Min(Len(list1), Len(list2))
        K == SortKeys(SubSeq(list2, 1, m), sort_key)
        order == SortedOrder(K, reverse)
    IN  IF KeyRaises(K) \/ SortRaises(K) THEN list1
        ELSE Permute(list1, order)

\* The longest prefix of the keys K whose elements can all be compared.
ComparablePrefix(K) ==
    LET bad == {i \in 2..Len(K) :
                   \E h \in 1..(i - 1) : PyCmp(K[h], K[i]) = "err"}
    IN  IF bad = {} THEN Len(K)
        ELSE (CHOOSE i \in bad : \A h \in bad : i <= h) - 1

\* count_run: the keys K are one run, non-decreasing or strictly decreasing.
IsRun(K) ==
    \/ \A i \in 1..(Len(K) - 1) : PyCmp(K[i + 1], K[i]) # "lt"
    \/ \A i \in 1..(Len(K) - 1) : PyCmp(K[i + 1], K[i]) = "lt"

\* What list.sort() leaves in a list l whose sort raises.  The elements
\* before the first one that cannot be compared are sorted by binary
\* insertion, unless they are one run: then the failure comes during run
\* detection and nothing has moved.  Lists of 64 elements or more are sorted
\* in several runs whose bounds depend on the interpreter: both outcomes.
FailedSortForward(l, K) ==
    LET j == ComparablePrefix(K)
        sortedprefix ==
            Permute(l, SortedOrder(SubSeq(K, 1, j), FALSE))
                \o SubSeq(l, j + 1, Len(l))
    IN  IF IsRun(SubSeq(K, 1, j)) THEN {l}
        ELSE IF Len(l) < 64 \/ j < 32 THEN {sortedprefix}
        ELSE {l, sortedprefix}

\* list.sort(reverse=reverse, key=sort_key) inside try/except: the set of
\* lists it can leave.  A reverse sort reverses the list, sorts it forward
\* and reverses it back, also when it fails; when the key function raises,
\* nothing has moved.
ListSort(l, reverse, sort_key) ==
    LET K == SortKeys(l, sort_key)
    IN  IF KeyRaises(K) THEN {l}
        ELSE IF ~SortRaises(K) THEN {Sorted(l, reverse, sort_key)}
        ELSE IF reverse
             THEN {Reverse(x) : x \in FailedSortForward(Reverse(l), Reverse(K))}
             ELSE FailedSortForward(l, K)

(***************************************************************************)
(* Size and type of a value, as shown in the Size and Type columns.        *)
(***************************************************************************)
\* get_size(value): the shape of an array, the length of a list, 1 otherwise.
get_size(value) ==
    IF value.k = "array" THEN PyTuple(value.n)
    ELSE IF value.k = "list" THEN PyInt(value.n)
    ELSE IF value.k = "str" THEN PyInt(Len(value.s))
    ELSE PyInt(1)

\* get_human_readable_type(value)
get_human_readable_type(value) ==
    IF value.k = "array"
    THEN PyStr(<<"A", "r", "r", "a", "y", " ", "o", "f", " ",
                 "i", "n", "t", "6", "4">>)
    ELSE IF value.k = "list" THEN PyStr(<<"l", "i", "s", "t">>)
    ELSE IF value.k = "str" THEN PyStr(<<"s", "t", "r">>)
    ELSE IF value.k = "method" THEN PyStr(<<"m", "e", "t", "h", "o", "d">>)
    ELSE IF value.k = "object" THEN PyStr(<<"o", "b", "j", "e", "c", "t">>)
    ELSE PyStr(<<"i", "n", "t">>)

(***************************************************************************)
(* Collections.  A collection is [kind, ks, vs]: its Python type, its keys *)
(* in iteration order (positions 0..n-1 of a sequence or of a set's        *)
(* iteration, the keys of a dict in insertion order, the attribute names   *)
(* of an object) and the value of each key.                                *)
(***************************************************************************)
Kinds == {"list", "tuple", "set", "frozenset", "dict", "object"}
\* The kinds of which the model also takes large collections.
LargeKinds == {"dict"}

\* Key names of small dictionaries.
Names == << <<"b", "1", "0">>, <<"b", "2">>, <<"B", "1">>, <<"a">>,
            <<"a", "1">>, <<"2">> >>

\* Attribute names of objects, in the order in which dir() lists them.
AttrNames == << <<"B", "1">>, <<"b", "1", "0">>, <<"b", "2">>, <<"f">>,
                <<"y">> >>

\* The value of the i-th entry under a value pattern: "lists" are lists of
\* different lengths, "mixed" are integers, lists and arrays.
ValueAt(i, vp) ==
    IF vp = "lists" THEN PyList((i * 7) % 4)
    ELSE IF i % 3 = 1 THEN PyArray(2 + (i % 2))
    ELSE IF i % 3 = 2 THEN PyInt(i)
    ELSE PyList(i % 4)

\* The i-th key of a collection of n entries.  The keys of a dict follow a
\* key pattern: "names" are strings, "mixed" are strings and integers; a
\* large dict has the integer keys n..1, inserted in descending order.
KeyAt(kind, n, kp, i) ==
    IF kind = "object" THEN PyStr(AttrNames[i])
    ELSE IF kind = "dict"
         THEN (IF n > Len(Names) THEN PyInt(n + 1 - i)
               ELSE IF kp = "mixed" /\ i % 2 = 0 THEN PyInt(i)
               ELSE PyStr(Names[i]))
    ELSE PyInt(i - 1)

MakeData(kind, n, kp, vp) ==
    [kind |-> kind,
     ks |-> List([i \in 1..n |-> KeyAt(kind, n, kp, i)]),
     vs |-> List([i \in 1..n |-> ValueAt(i, vp)])]

\* The numbers of entries: small ones, and for the large kinds the largest
\* number that is loaded at once and the smallest that is not.
Sizes(kind) ==
    (0..MaxSmall) \cup
    (IF kind \in LargeKinds THEN {LARGE_NROWS, LARGE_NROWS + 1} ELSE {})

\* The collections of the given numbers of entries and value patterns.
CollectionsOf(ns, vps) ==
    {MakeData(t[1], t[2], t[3], t[4]) :
        t \in {u \in Kinds \X ns \X {"names", "mixed"} \X vps :
                  u[2] \in Sizes(u[1])}}

\* The collections an editor is opened with.
Collections == CollectionsOf(0..(LARGE_NROWS + 1), {"lists", "mixed"})

\* The collections an open editor is given by set_data: empty ones, small
\* ones and large ones.
Resets == CollectionsOf({0, MaxSmall, LARGE_NROWS + 1}, {"mixed"})

\* d[key]: an index into a sequence, a lookup in a dict or an object
GetItem(d, key) ==
    IF d.kind \in {"dict", "object"}
    THEN d.vs[CHOOSE i \in 1..Len(d.ks) : d.ks[i] = key]
    ELSE d.vs[key.n + 1]

\* A mistake in d[key] = value: every entry gets the value.
SetItem_Everywhere(d, key, value) ==
    [d EXCEPT !.vs = List([i \in 1..Len(d.vs) |-> value])]

\* d[key] = value, for a key of the collection
SetItem(d, key, value) ==
    [d EXCEPT !.vs = List([i \in 1..Len(d.vs) |->
                              IF d.ks[i] = key THEN value ELSE d.vs[i]])]

(***************************************************************************)
(* State of the table model and of the header of its view.                 *)
(***************************************************************************)
VARIABLES
    data,           \* self._data
    keys,           \* self.keys
    sizes,          \* self.sizes
    types,          \* self.types
    rows_loaded,    \* self.rows_loaded
    total_rows,     \* self.total_rows
    previous_sort,  \* self.previous_sort
    letters,        \* self.letters
    scores,         \* self.scores
    sort_indicator, \* section and order of the header's sort indicator
    inserted,       \* rows announced by beginInsertRows in the last
                    \* operation: <<first, last>>, or <<>> when none were
    readonly,       \* the view's readonly: its model has no set_value
    selected,       \* the rows selected in the view when the last operation
                    \* was called, in the order of selectedIndexes()
    outcome,        \* of the last operation: the exception that left it
                    \* ("" when none did) and the value it returned
    last_op,        \* the last operation and its arguments
    nops,           \* number of operations so far
    pattern,        \* proxy_model.pattern: the text it was compiled from
    visible,        \* the rows of the model that the proxy model shows
    var_properties, \* the view's var_properties: the names it has records of
    namespace,      \* the variables of the console the shell widget talks to
    calls,          \* the calls of the shell widget and of the namespace
                    \* browser that the last operation made, in order
    data_copy,      \* the object the dialog's data_copy refers to
    original,       \* the object data_copy was taken from: the data passed
                    \* to setup, then the last value of the data function
    btn_save_and_close, \* the dialog's button: "None", "disabled", "enabled"
    result          \* of the dialog: "" while it is open, then "accepted"
                    \* or "rejected"

\* The state of a view of the variables of a console.
remote_vars == <<pattern, visible, var_properties, namespace, calls>>

\* The state of a CollectionsEditor dialog.
dialog_vars == <<data_copy, original, btn_save_and_close, result>>

vars == <<data, keys, sizes, types, rows_loaded, total_rows, previous_sort,
          letters, scores, sort_indicator, inserted, readonly, selected,
          outcome, last_op, nops, pattern, visible, var_properties,
          namespace, calls, data_copy, original, btn_save_and_close, result>>

\* None
PyNone == [k |-> "None", n |-> 0, s |-> <<>>]

\* An operation returned None and no exception left it.
NoOutcome == [raised |-> "", value |-> PyNone]

\* An operation: its name, the column and order of a sort, and in n the
\* number_to_fetch of a fetch, the row of a set_value, or the value
\* previous_sort had when a sort was called.
Op(op, col, rev, n) == [op |-> op, col |-> col, rev |-> rev, n |-> n]

\* A mistake in set_data: a collection of LARGE_NROWS entries counts as large.
InitialRowsLoaded_AtThreshold(total) ==
    IF total >= LARGE_NROWS THEN ROWS_TO_LOAD ELSE total

\* rows_loaded after set_data
InitialRowsLoaded(total) ==
    IF total > LARGE_NROWS THEN ROWS_TO_LOAD ELSE total

\* A mistake in set_size_and_type: the metadata that was read always
\* replaces the loaded one.
Loaded_Replaced(old, new, fetch_more) == new

\* set_size_and_type: the metadata that was read comes after the loaded
\* one in a fetch and replaces it otherwise.
Loaded(old, new, fetch_more) == IF fetch_more THEN old \o new ELSE new

\* set_size_and_type(start, stop): the sizes and types of rows start..stop-1
\* (rows are counted from 0) of the keys k.
SizesOf(d, k, start, stop) ==
    List([i \in 1..(stop - start) |-> get_size(GetItem(d, k[start + i]))])
TypesOf(d, k, start, stop) ==
    List([i \in 1..(stop - start) |->
             get_human_readable_type(GetItem(d, k[start + i]))])

(***************************************************************************)
(* ReadOnlyCollectionsModel                                                *)
(***************************************************************************)
Asc == FALSE
Desc == TRUE

\* str(key)
KeyName(key) == IF key.k = "int" THEN DigitsOfInt(key.n) ELSE key.s

\* text occurs in name
IsSubstring(text, name) ==
    \E i \in 0..(Len(name) - Len(text)) :
        SubSeq(name, i + 1, i + Len(text)) = text

\* The score get_search_scores gives a name: 0 for no match.
SearchScore(text, name) ==
    IF text # <<>> /\ IsSubstring(text, name) THEN 1 ELSE 0

\* update_search_letters(text): the scores of the keys k
ScoresOf(text, k) ==
    List([i \in 1..Len(k) |-> SearchScore(text, KeyName(k[i]))])

\* The search texts of the model.
Texts == { <<>>, <<"b">>, <<"1">> }

\* set_data(d): the table model takes the collection d.
SetDataTo(d) ==
    /\ data' = d
    /\ keys' = d.ks
    /\ total_rows' = Len(d.ks)
    /\ rows_loaded' = InitialRowsLoaded(Len(d.ks))
    /\ sizes' = Loaded(sizes, SizesOf(d, d.ks, 0,
                                       InitialRowsLoaded(Len(d.ks))), FALSE)
    /\ types' = Loaded(types, TypesOf(d, d.ks, 0,
                                       InitialRowsLoaded(Len(d.ks))), FALSE)
    /\ IF Len(d.ks) > 0
       THEN letters' = <<>> /\ scores' = ScoresOf(<<>>, d.ks)
       ELSE UNCHANGED <<letters, scores>>

\* A model or a view that is not one of the variables of a console: it has
\* no proxy model and no shell widget.
NoConsole ==
    /\ pattern = <<>>
    /\ visible = {}
    /\ var_properties = {}
    /\ namespace = [kind |-> "dict", ks |-> <<>>, vs |-> <<>>]
    /\ calls = <<>>

\* A Python object as far as a dialog tells objects apart: which object it
\* is, and whether its type is the builtin type of its kind or a subclass of
\* it.  Objects with the same id are one object.
Object(id, cls) == [id |-> id, cls |-> cls]
NoObject == Object(0, "")

\* A model or a view that is not inside a CollectionsEditor dialog: nothing
\* is connected to sig_setting_data.
NoDialog ==
    /\ data_copy = NoObject
    /\ original = NoObject
    /\ btn_save_and_close = "None"
    /\ result = ""

\* sig_setting_data.emit(): the dialog's save_and_close_enable, when a dialog
\* is connected, enables the button if there is one.
sig_setting_data ==
    btn_save_and_close' =
        IF btn_save_and_close = "None" THEN "None" ELSE "enabled"

\* The collections shown with the editable model.
Editable(d) == d.kind \in {"list", "dict", "object"}

\* The table model as constructed by its view for the collection d.
Init ==
    \E d \in Collections :
        /\ data = d
        /\ keys = d.ks
        /\ total_rows = Len(d.ks)
        /\ rows_loaded = InitialRowsLoaded(Len(d.ks))
        /\ sizes = SizesOf(d, d.ks, 0, InitialRowsLoaded(Len(d.ks)))
        /\ types = TypesOf(d, d.ks, 0, InitialRowsLoaded(Len(d.ks)))
        /\ letters = <<>>
        /\ scores = ScoresOf(<<>>, d.ks)
        /\ previous_sort = -1
        /\ sort_indicator = IF d.kind = "dict" THEN <<-1, Asc>> ELSE <<0, Asc>>
        /\ inserted = <<>>
        /\ readonly = ~Editable(d)
        /\ selected = <<>>
        /\ outcome = NoOutcome
        /\ last_op = Op("init", -1, Asc, 0)
        /\ nops = 0
        /\ NoConsole
        /\ NoDialog

\* set_data(d) on the existing model: a reset to a new collection.
SetData(d) ==
    /\ nops < MaxOps
    /\ SetDataTo(d)
    /\ UNCHANGED <<previous_sort, sort_indicator>>
    /\ inserted' = <<>>
    /\ UNCHANGED readonly
    /\ UNCHANGED remote_vars
    /\ UNCHANGED dialog_vars
    /\ selected' = <<>>
    /\ outcome' = NoOutcome
    /\ last_op' = Op("set_data", -1, Asc, 0)
    /\ nops' = nops + 1

\* A mistake in fetchMore: number_to_fetch is ignored.
ItemsToFetch_Default(reminder, number_to_fetch) == Min(reminder, ROWS_TO_LOAD)

\* fetchMore: the number of rows a call loads; number_to_fetch = 0 stands
\* for None.
ItemsToFetch(reminder, number_to_fetch) ==
    IF number_to_fetch # 0 THEN Min(reminder, number_to_fetch)
    ELSE Min(reminder, ROWS_TO_LOAD)

\* A mistake in fetchMore: the call goes on when nothing is left to load.
NothingToFetch_Negative(reminder) == reminder < 0

\* fetchMore: everything is loaded
NothingToFetch(reminder) == reminder <= 0

\* A mistake in fetchMore: rows_loaded is assigned, not increased.
RowsLoadedAfter_Assigned(loaded, items_to_fetch) == items_to_fetch

\* fetchMore: self.rows_loaded += items_to_fetch
RowsLoadedAfter(loaded, items_to_fetch) == loaded + items_to_fetch

\* The body of fetchMore(number_to_fetch=n).
FetchMoreBody(n) ==
    LET reminder == total_rows - rows_loaded
        items_to_fetch == ItemsToFetch(reminder, n)
    IN  IF NothingToFetch(reminder)
        THEN /\ UNCHANGED <<sizes, types, rows_loaded>>
             /\ inserted' = <<>>
        ELSE /\ sizes' = Loaded(sizes,
                                SizesOf(data, keys, rows_loaded,
                                        rows_loaded + items_to_fetch), TRUE)
             /\ types' = Loaded(types,
                                TypesOf(data, keys, rows_loaded,
                                        rows_loaded + items_to_fetch), TRUE)
             /\ inserted' = <<rows_loaded, rows_loaded + items_to_fetch - 1>>
             /\ rows_loaded' = RowsLoadedAfter(rows_loaded, items_to_fetch)

\* fetchMore(number_to_fetch=n)
FetchMore(n) ==
    /\ nops < MaxOps
    /\ FetchMoreBody(n)
    /\ UNCHANGED <<data, keys, total_rows, previous_sort, letters, scores,
                   sort_indicator>>
    /\ UNCHANGED readonly
    /\ UNCHANGED remote_vars
    /\ UNCHANGED dialog_vars
    /\ selected' = <<>>
    /\ outcome' = NoOutcome
    /\ last_op' = Op("fetchMore", -1, Asc, n)
    /\ nops' = nops + 1

\* load_all()
LoadAll ==
    /\ nops < MaxOps
    /\ FetchMoreBody(total_rows)
    /\ UNCHANGED <<data, keys, total_rows, previous_sort, letters, scores,
                   sort_indicator>>
    /\ UNCHANGED readonly
    /\ UNCHANGED remote_vars
    /\ UNCHANGED dialog_vars
    /\ selected' = <<>>
    /\ outcome' = NoOutcome
    /\ last_op' = Op("load_all", -1, Asc, total_rows)
    /\ nops' = nops + 1

\* update_search_letters(text)
UpdateSearchLetters(text) ==
    /\ nops < MaxOps
    /\ letters' = text
    /\ IF Len(keys) > 0 THEN scores' = ScoresOf(text, keys)
       ELSE UNCHANGED scores
    /\ UNCHANGED <<data, keys, sizes, types, rows_loaded, total_rows,
                   previous_sort, sort_indicator>>
    /\ inserted' = <<>>
    /\ UNCHANGED readonly
    /\ UNCHANGED remote_vars
    /\ UNCHANGED dialog_vars
    /\ selected' = <<>>
    /\ outcome' = NoOutcome
    /\ last_op' = Op("search", -1, Asc, 0)
    /\ nops' = nops + 1

\* self._parent.horizontalHeader(): the parent of the model is a table view.
header == TRUE

\* all_string(listlike)
all_string(listlike) == \A i \in 1..Len(listlike) : listlike[i].k = "str"

\* l[:n] = new
SliceAssign(l, n, new) == new \o SubSeq(l, n + 1, Len(l))

\* A mistake in sort: the first branch is taken for every kind of collection.
RevertsToInsertionOrder_AnyKind(column, order) ==
    /\ header
    /\ order = Asc
    /\ column # -1
    /\ previous_sort = column

\* A mistake in sort: the first branch is taken on a descending sort.
RevertsToInsertionOrder_Descending(column, order) ==
    /\ header
    /\ order = Desc
    /\ column # -1
    /\ previous_sort = column
    /\ data.kind = "dict"

\* The branch of sort that returns a dict to its insertion order.
RevertsToInsertionOrder(column, order) ==
    /\ header
    /\ order = Asc
    /\ column # -1
    /\ previous_sort = column
    /\ data.kind = "dict"

\* What sort(column, order) past its first branch (lines 390-432) makes of
\* the keys k, sizes sz and types ty of the collection d with loaded rows:
\* the set of the [keys, sizes, types] it can leave.
SortedLists(d, k, sz, ty, loaded, column, order) ==
    LET reverse == (order = Desc)
        sort_key == IF all_string(k) THEN "natsort" ELSE "None"
        values == List([i \in 1..Len(k) |-> GetItem(d, k[i])])
    IN  IF column = -1 THEN
            {[keys |-> d.ks,
              sizes |-> Loaded(sz, SizesOf(d, d.ks, 0, loaded), FALSE),
              types |-> Loaded(ty, TypesOf(d, d.ks, 0, loaded), FALSE)]}
        ELSE IF column = 0 THEN
            {[keys |-> x,
              sizes |-> sort_against(sz, k, reverse, "natsort"),
              types |-> sort_against(ty, k, reverse, "natsort")] :
                x \in ListSort(k, reverse, sort_key)}
        ELSE IF column = 1 THEN
            {[keys |-> SliceAssign(k, loaded,
                                   sort_against(k, ty, reverse, "None")),
              sizes |-> sort_against(sz, ty, reverse, "None"),
              types |-> x] :
                x \in ListSort(ty, reverse, "None")}
        ELSE IF column = 2 THEN
            {[keys |-> SliceAssign(k, loaded,
                                   sort_against(k, sz, reverse, "None")),
              sizes |-> x,
              types |-> sort_against(ty, sz, reverse, "None")] :
                x \in ListSort(sz, reverse, "None")}
        ELSE
            {[keys |-> sort_against(k, values, reverse, "None"),
              sizes |-> sort_against(sz, values, reverse, "None"),
              types |-> sort_against(ty, values, reverse, "None")]}

\* sort(column, order) past the first branch (lines 390-432).
SortColumn(column, order) ==
    /\ previous_sort' = column
    /\ \E r \in SortedLists(data, keys, sizes, types, rows_loaded,
                             column, order) :
           /\ keys' = r.keys
           /\ sizes' = r.sizes
           /\ types' = r.types

\* The columns of the header and the sort orders.
Columns == 0..4
Orders == {Asc, Desc}

\* The view sorts by a column: the header shows (column, order) and the
\* model's sort(column, order) runs.  In its first branch the model sets the
\* header's indicator to (-1, Asc), upon which the view calls sort(-1, Asc).
SortCalled(column, order) ==
    /\ IF RevertsToInsertionOrder(column, order)
       THEN /\ SortColumn(-1, Asc)
            /\ sort_indicator' = <<-1, Asc>>
       ELSE /\ SortColumn(column, order)
            /\ sort_indicator' = <<column, order>>
    /\ UNCHANGED <<data, rows_loaded, total_rows, letters, scores>>
    /\ inserted' = <<>>
    /\ UNCHANGED readonly
    /\ UNCHANGED remote_vars
    /\ UNCHANGED dialog_vars
    /\ selected' = <<>>
    /\ outcome' = NoOutcome
    /\ last_op' = Op("sort", column, order, previous_sort)
    /\ nops' = nops + 1

\* A sort among the operations on a table model.
Sort(column, order) ==
    /\ nops < MaxOps
    /\ SortCalled(column, order)

(***************************************************************************)
(* CollectionsModel                                                        *)
(***************************************************************************)
\* The values and rows of the set_value calls of the model.
NewValues == {PyInt(7), PyArray(2)}
EditRows == {0, rows_loaded - 1}

\* set_value(index, value) for the row of index
SetValue(row, value) ==
    /\ nops < MaxOps
    /\ ~readonly
    /\ Editable(data)
    /\ row >= 0 /\ row < rows_loaded
    /\ data' = SetItem(data, keys[row + 1], value)
    /\ sizes' = [sizes EXCEPT ![row + 1] = get_size(value)]
    /\ types' = [types EXCEPT ![row + 1] = get_human_readable_type(value)]
    /\ UNCHANGED <<keys, rows_loaded, total_rows, previous_sort, letters,
                   scores, sort_indicator>>
    /\ inserted' = <<>>
    /\ UNCHANGED readonly
    /\ UNCHANGED remote_vars
    /\ sig_setting_data
    /\ UNCHANGED <<data_copy, original, result>>
    /\ selected' = <<>>
    /\ outcome' = NoOutcome
    /\ last_op' = Op("set_value", -1, Asc, row)
    /\ nops' = nops + 1

Next ==
    \/ \E d \in Resets : SetData(d)
    \/ \E n \in 0..MaxFetch : FetchMore(n)
    \/ LoadAll
    \/ \E column \in Columns, order \in Orders : Sort(column, order)
    \/ \E row \in EditRows, value \in NewValues : SetValue(row, value)
    \/ \E text \in Texts : UpdateSearchLetters(text)

Spec == Init /\ [][Next]_vars

(***************************************************************************)
(* CollectionsEditorTableView: the handlers of the view that edit the      *)
(* collection in place.  Each handler is the slot itself; the menu and     *)
(* toolbar entries that trigger it are enabled or disabled by refresh_menu. *)
(***************************************************************************)
\* Number of operations on a view of a collection of more than MaxSmall + 1
\* entries.
MaxLargeOps == 1

\* get_data(): self._data, which set_data made list(data) for a set or a
\* frozenset.
get_data ==
    IF data.kind \in {"set", "frozenset"}
    THEN [data EXCEPT !.kind = "list"]
    ELSE data

\* The list of the values vs, with its indices as keys.
ListOf(vs) ==
    [kind |-> "list",
     ks |-> List([i \in 1..Len(vs) |-> PyInt(i - 1)]),
     vs |-> vs]

\* key in data
HasKey(d, key) ==
    IF d.kind = "dict" THEN \E i \in 1..Len(d.ks) : d.ks[i] = key
    ELSE key.k = "int" /\ key.n >= 0 /\ key.n < Len(d.vs)

\* data.pop(key) for a key of a list or a dict: the collection it leaves
Pop(d, key) ==
    IF d.kind = "list"
    THEN ListOf(SubSeq(d.vs, 1, key.n) \o SubSeq(d.vs, key.n + 2, Len(d.vs)))
    ELSE LET i == CHOOSE i \in 1..Len(d.ks) : d.ks[i] = key
         IN  [d EXCEPT !.ks = SubSeq(d.ks, 1, i - 1)
                                  \o SubSeq(d.ks, i + 1, Len(d.ks)),
                       !.vs = SubSeq(d.vs, 1, i - 1)
                                  \o SubSeq(d.vs, i + 1, Len(d.vs))]

\* data.insert(row, value) of a list
ListInsert(d, row, value) ==
    LET at == Min(row, Len(d.vs))
    IN  ListOf(SubSeq(d.vs, 1, at) \o <<value>>
                   \o SubSeq(d.vs, at + 1, Len(d.vs)))

\* data[key] = value of a list or a dict: a new key of a dict comes last
Assign(d, key, value) ==
    IF d.kind = "dict" /\ ~HasKey(d, key)
    THEN [d EXCEPT !.ks = Append(d.ks, key), !.vs = Append(d.vs, value)]
    ELSE SetItem(d, key, value)

\* The sort that setSortingEnabled(True) triggers at the end of the view's
\* set_data(d), with the header's indicator ind and the model's previous
\* sort column prev: the indicator and previous_sort it leaves.  The model
\* sorts by the column and order of the indicator; when that sort takes its
\* first branch the indicator becomes (-1, Asc) and sort(-1, Asc) runs.
Resorted(d, ind, prev) ==
    IF /\ header
       /\ ind[2] = Asc
       /\ ind[1] # -1
       /\ prev = ind[1]
       /\ d.kind = "dict"
    THEN [ind |-> <<-1, Asc>>, prev |-> -1]
    ELSE [ind |-> ind, prev |-> ind[1]]

\* The view's set_data(d), called with the indicator ind and the previous
\* sort column prev: the model's set_data, then the sort by the indicator.
\* What the slots connected to the model's sig_setting_data do is left to
\* the caller.
ViewSetDataAfter(d, ind, prev) ==
    LET loaded == InitialRowsLoaded(Len(d.ks))
        sz == Loaded(sizes, SizesOf(d, d.ks, 0, loaded), FALSE)
        ty == Loaded(types, TypesOf(d, d.ks, 0, loaded), FALSE)
        h == Resorted(d, ind, prev)
    IN  /\ data' = d
        /\ total_rows' = Len(d.ks)
        /\ rows_loaded' = loaded
        /\ IF Len(d.ks) > 0
           THEN letters' = <<>> /\ scores' = ScoresOf(<<>>, d.ks)
           ELSE UNCHANGED <<letters, scores>>
        /\ sort_indicator' = h.ind
        /\ previous_sort' = h.prev
        /\ \E r \in SortedLists(d, d.ks, sz, ty, loaded, h.ind[1], h.ind[2]) :
               /\ keys' = r.keys
               /\ sizes' = r.sizes
               /\ types' = r.types

\* The view's set_data(d) within a handler of the view
ViewSetData(d) ==
    /\ ViewSetDataAfter(d, sort_indicator, previous_sort)
    /\ sig_setting_data

\* A handler returns or raises before it has changed anything.
Rejected(raised) ==
    /\ UNCHANGED <<data, keys, sizes, types, rows_loaded, total_rows,
                   previous_sort, letters, scores, sort_indicator,
                   btn_save_and_close>>
    /\ outcome' = [raised |-> raised, value |-> PyNone]

\* rowCount()
rowCount == IF total_rows <= rows_loaded THEN total_rows ELSE rows_loaded

\* The selections of the rows of a view: none, one row, or two rows in either
\* order of selection.
Selections ==
    LET rows == {0, rowCount - 1} \cap (0..(rowCount - 1))
    IN  {<<>>} \cup {<<r>> : r \in rows}
               \cup {<<t[1], t[2]>> : t \in {u \in rows \X rows : u[1] # u[2]}}

\* What a handler of the view sets besides the model and the header.
Handled(op, rows, n) ==
    /\ nops < (IF total_rows > MaxSmall + 1 THEN MaxLargeOps ELSE MaxOps)
    /\ rows \in Selections
    /\ selected' = rows
    /\ inserted' = <<>>
    /\ UNCHANGED readonly
    /\ UNCHANGED remote_vars
    /\ UNCHANGED <<data_copy, original, result>>
    /\ last_op' = Op(op, -1, Asc, n)
    /\ nops' = nops + 1

\* remove_values(keys): the exception that leaves it, "" when none does.
\* sorted() compares the keys; a tuple and a ProxyObject have no pop.
RemoveValuesRaises(d, ks) ==
    IF SortRaises(ks) THEN "TypeError"
    ELSE IF ks # <<>> /\ d.kind \in {"tuple", "object"} THEN "AttributeError"
    ELSE IF \E i \in 1..Len(ks) : ~HasKey(d, ks[i])
         THEN (IF d.kind = "dict" THEN "KeyError" ELSE "IndexError")
    ELSE ""

\* for key in sorted(keys, reverse=True): data.pop(key)
RECURSIVE PopAll(_, _)
PopAll(d, ks) ==
    IF ks = <<>> THEN d ELSE PopAll(Pop(d, Head(ks)), Tail(ks))

\* remove_values(keys) when no exception leaves it: the collection passed to
\* set_data
RemoveValues(d, ks) == PopAll(d, Sorted(ks, TRUE, "None"))

\* remove_item(force=True), or remove_item() with the question answered Yes,
\* on the selection rows.
RemoveItem(rows) ==
    /\ Handled("remove_item", rows, Len(rows))
    /\ LET ks == List([i \in 1..Len(rows) |-> keys[rows[i] + 1]])
           raised == RemoveValuesRaises(get_data, ks)
       IN  IF rows = <<>> \/ raised # ""
           THEN Rejected(IF rows = <<>> THEN "" ELSE raised)
           ELSE /\ ViewSetData(RemoveValues(get_data, ks))
                /\ outcome' = NoOutcome

\* What the user answers in a dialog that asks for a key or for a value;
\* no answer stands for a cancelled dialog and for an empty text.
NoAnswer == PyStr(<<>>)
KeyAnswers == {PyStr(<<"b", "1", "0">>), PyStr(<<"f">>)}
ValueAnswers == {PyInt(7)}

\* insert_item(below) with the current index on the row of rows, or with no
\* current index.  The list branch inserts '' before it asks for the value.
InsertItem(rows, below) ==
    /\ Len(rows) <= 1
    /\ Handled("insert_item", rows, IF below THEN 1 ELSE 0)
    /\ LET row == IF rows = <<>> THEN rowCount
                  ELSE IF below THEN rows[1] + 1 ELSE rows[1]
           d == get_data
       IN  IF d.kind = "list" THEN
               \E value \in ValueAnswers \cup {NoAnswer} :
                   IF value = NoAnswer
                   THEN /\ data' = ListInsert(d, row, PyStr(<<>>))
                        /\ UNCHANGED <<keys, sizes, types, rows_loaded,
                                       total_rows, previous_sort, letters,
                                       scores, sort_indicator,
                                       btn_save_and_close>>
                        /\ outcome' = NoOutcome
                   ELSE /\ ViewSetData(Assign(ListInsert(d, row, PyStr(<<>>)),
                                              PyInt(row), value))
                        /\ outcome' = NoOutcome
           ELSE IF d.kind = "dict" THEN
               \E key \in KeyAnswers \cup {NoAnswer} :
                   IF key = NoAnswer THEN Rejected("")
                   ELSE \E value \in ValueAnswers \cup {NoAnswer} :
                            IF value = NoAnswer THEN Rejected("")
                            ELSE /\ ViewSetData(Assign(d, key, value))
                                 /\ outcome' = NoOutcome
           ELSE Rejected("")

\* The attribute names get_object_attrs lists for a ProxyObject, whatever it
\* wraps: none of the names dir() gives is without a leading "__", so it
\* lists them all.  Two of them stand for the list: a method of the class and
\* the attribute that holds the wrapped object.
ProxyAttrs == <<PyStr(<<"_", "_", "l", "e", "n", "_", "_">>),
                PyStr(<<"_", "_", "o", "b", "j", "_", "_">>)>>

\* The collection set_data sees when it is handed ProxyObject(obj), the
\* model's own _data, instead of an object: its attributes are those of the
\* proxy, and obj is what the proxy wraps.
ProxyOf(obj) ==
    [kind |-> "object", ks |-> ProxyAttrs, vs |-> <<PyMethod, PyObject>>,
     wrapped |-> obj]

\* ProxyObject.__setitem__(key, value) on an object that takes any
\* attribute: setattr(obj, key, value).  dir() lists the names in order.
SetAttr(obj, key, value) ==
    IF \E i \in 1..Len(obj.ks) : obj.ks[i] = key
    THEN SetItem(obj, key, value)
    ELSE LET at == Cardinality({i \in 1..Len(obj.ks) :
                                   PyCmp(obj.ks[i], key) = "lt"})
         IN  [obj EXCEPT !.ks = SubSeq(obj.ks, 1, at) \o <<key>>
                                    \o SubSeq(obj.ks, at + 1, Len(obj.ks)),
                         !.vs = SubSeq(obj.vs, 1, at) \o <<value>>
                                    \o SubSeq(obj.vs, at + 1, Len(obj.vs))]

\* A mistake in copy_item: every key can be renamed.
RenameRejected_Never(orig_key) == FALSE

\* copy_item(erase_original=True): only keys that are strings are renamed.
RenameRejected(orig_key) == orig_key.k # "str"

\* copy_item(erase_original) on the selection rows: duplicate_item() and
\* rename_item().  copy_value and remove_values each end in set_data.
CopyItem(rows, erase_original) ==
    /\ Handled(IF erase_original THEN "rename_item" ELSE "duplicate_item",
               rows, 0)
    /\ IF Len(rows) # 1 THEN Rejected("")
       ELSE LET orig_key == keys[rows[1] + 1]
                d == get_data
                h == Resorted(d, sort_indicator, previous_sort)
                Copied(new_key) ==
                    Assign(IF d.kind = "list"
                           THEN ListOf(Append(d.vs, GetItem(d, orig_key)))
                           ELSE d,
                           new_key, GetItem(d, orig_key))
                CopyValue(new_key) ==
                    /\ outcome' = NoOutcome
                    /\ IF erase_original
                       THEN /\ ViewSetDataAfter(Pop(Copied(new_key),
                                                    orig_key),
                                                h.ind, h.prev)
                            /\ sig_setting_data
                       ELSE ViewSetData(Copied(new_key))
            IN  IF erase_original /\ RenameRejected(orig_key)
                THEN Rejected("")
                ELSE IF d.kind = "list" THEN CopyValue(PyInt(Len(d.vs)))
                ELSE IF d.kind = "dict" THEN
                    \E new_key \in KeyAnswers \cup {NoAnswer} :
                        IF new_key = NoAnswer \/ new_key = orig_key
                        THEN Rejected("")
                        ELSE CopyValue(new_key)
                ELSE IF d.kind = "object" THEN
                    \E new_key \in KeyAnswers \cup {NoAnswer} :
                        IF new_key = NoAnswer \/ new_key = orig_key
                        THEN Rejected("")
                        ELSE /\ ViewSetData(ProxyOf(
                                    SetAttr(d, new_key, GetItem(d, orig_key))))
                             /\ outcome' =
                                    [raised |-> IF erase_original
                                                THEN "AttributeError" ELSE "",
                                     value |-> PyNone]
                ELSE Rejected("TypeError")

\* The collections a view is opened with to be edited in place.
EditCollections == CollectionsOf(0..LARGE_NROWS, {"mixed"})

\* The view as constructed for the collection d: its model, then the header's
\* indicator and setSortingEnabled(True), which sorts by the indicator.
EditInit ==
    \E d \in EditCollections :
        /\ data = d
        /\ keys = d.ks
        /\ total_rows = Len(d.ks)
        /\ rows_loaded = InitialRowsLoaded(Len(d.ks))
        /\ sizes = SizesOf(d, d.ks, 0, InitialRowsLoaded(Len(d.ks)))
        /\ types = TypesOf(d, d.ks, 0, InitialRowsLoaded(Len(d.ks)))
        /\ letters = <<>>
        /\ scores = ScoresOf(<<>>, d.ks)
        /\ previous_sort = IF d.kind = "dict" THEN -1 ELSE 0
        /\ sort_indicator = IF d.kind = "dict" THEN <<-1, Asc>> ELSE <<0, Asc>>
        /\ inserted = <<>>
        /\ readonly = ~Editable(d)
        /\ selected = <<>>
        /\ outcome = NoOutcome
        /\ last_op = Op("init", -1, Asc, 0)
        /\ nops = 0
        /\ NoConsole
        /\ NoDialog

\* The columns whose header is clicked in a view that is edited.
ClickedColumns == {0, 3}

\* A click on the header of a column of the view: the model sorts.
ViewSort(column, order) ==
    /\ total_rows > MaxSmall + 1 => nops < MaxLargeOps
    /\ Sort(column, order)

EditNext ==
    \/ \E rows \in Selections : RemoveItem(rows)
    \/ \E rows \in Selections, below \in BOOLEAN : InsertItem(rows, below)
    \/ \E rows \in Selections, erase_original \in BOOLEAN :
           CopyItem(rows, erase_original)
    \/ \E column \in ClickedColumns, order \in Orders : ViewSort(column, order)

EditSpec == EditInit /\ [][EditNext]_vars

(***************************************************************************)
(* ProxyObject: the dictionary proxy to an object.  An attribute of the    *)
(* object is a plain value, or a descriptor whose getter raises; its       *)
(* setter stores the value or raises.  An exception is its class and       *)
(* whether its message contains "cannot set values for".                   *)
(***************************************************************************)
\* The exception classes that getattr and setattr raise here.
ExceptionClasses ==
    {"AttributeError", "NotImplementedError", "TypeError", "ValueError",
     "KeyError", "RuntimeError"}

\* An attribute whose getter, or a setter that, raises cls; msg is 1 when
\* the message contains "cannot set values for".
Raises(cls, msg) == [k |-> "raises", n |-> msg, s |-> <<cls>>]
IsRaises(x) == x.k = "raises"

\* A setter that stores the value.
Stores == [k |-> "stores", n |-> 0, s |-> <<>>]

\* The objects behind a proxy: up to MaxSmall attributes; the getter and the
\* setter of the first one behave in any of the ways, the others are plain.
ProxiedObjects ==
    {[kind |-> "object",
      ks |-> List([i \in 1..n |-> PyStr(Names[i])]),
      vs |-> List([i \in 1..n |-> IF i = 1 THEN g ELSE ValueAt(i, "mixed")]),
      st |-> List([i \in 1..n |-> IF i = 1 THEN t ELSE Stores])] :
        n \in 1..Min(MaxSmall, Len(Names)),
        g \in {ValueAt(1, "mixed")}
                  \cup {Raises(cls, 0) : cls \in ExceptionClasses},
        t \in {Stores}
                  \cup {Raises(cls, msg) : cls \in ExceptionClasses,
                                           msg \in {0, 1}}}

\* A ProxyObject on its own, before any table model shows it.
ProxyInit ==
    \E d \in ProxiedObjects :
        /\ data = d
        /\ keys = <<>>
        /\ total_rows = 0
        /\ rows_loaded = 0
        /\ sizes = <<>>
        /\ types = <<>>
        /\ letters = <<>>
        /\ scores = <<>>
        /\ previous_sort = -1
        /\ sort_indicator = <<0, Asc>>
        /\ inserted = <<>>
        /\ readonly = FALSE
        /\ selected = <<>>
        /\ outcome = NoOutcome
        /\ last_op = Op("init", -1, Asc, 0)
        /\ nops = 0
        /\ NoConsole
        /\ NoDialog

\* What an operation of the proxy leaves alone.
ProxyFrame(op, i) ==
    /\ nops < MaxOps
    /\ UNCHANGED <<keys, sizes, types, rows_loaded, total_rows, previous_sort,
                   letters, scores, sort_indicator, inserted, readonly,
                   selected>>
    /\ UNCHANGED remote_vars
    /\ UNCHANGED dialog_vars
    /\ last_op' = Op(op, -1, Asc, i)
    /\ nops' = nops + 1

\* A mistake in __getitem__: ValueError is not caught.
CaughtOnGet_NoValueError(exc) ==
    exc.s[1] \in {"NotImplementedError", "AttributeError", "TypeError"}

\* __getitem__: the exceptions of getattr that it catches.
CaughtOnGet(exc) ==
    exc.s[1] \in {"NotImplementedError", "AttributeError", "TypeError",
                  "ValueError"}

\* A mistake in __setitem__: the message of the exception is not looked at.
CaughtOnSet_ByClassOnly(exc) ==
    exc.s[1] \in {"TypeError", "AttributeError", "NotImplementedError"}

\* __setitem__: the exceptions of setattr that it passes over.
CaughtOnSet(exc) ==
    \/ exc.s[1] \in {"TypeError", "AttributeError", "NotImplementedError"}
    \/ exc.n = 1

\* proxy[key] for the i-th attribute of the object; i = 0 is a name that the
\* object has no attribute of, for which getattr raises AttributeError.
ProxyGetItem(i) ==
    /\ ProxyFrame("__getitem__", i)
    /\ UNCHANGED data
    /\ LET got == IF i = 0 THEN Raises("AttributeError", 0) ELSE data.vs[i]
       IN  outcome' =
               IF ~IsRaises(got) THEN [raised |-> "", value |-> got]
               ELSE IF CaughtOnGet(got) THEN [raised |-> "", value |-> PyNone]
               ELSE [raised |-> got.s[1], value |-> PyNone]

\* proxy[key] = value for the i-th attribute of the object.  A value stored
\* through the setter of a descriptor is not what its getter returns.
ProxySetItem(i, value) ==
    /\ ProxyFrame("__setitem__", i)
    /\ LET setter == data.st[i]
       IN  IF ~IsRaises(setter)
           THEN /\ data' = IF IsRaises(data.vs[i]) THEN data
                           ELSE [data EXCEPT !.vs[i] = value]
                /\ outcome' = NoOutcome
           ELSE /\ UNCHANGED data
                /\ outcome' = IF CaughtOnSet(setter) THEN NoOutcome
                              ELSE [raised |-> setter.s[1], value |-> PyNone]

ProxyNext ==
    \/ \E i \in 0..Len(data.ks) : ProxyGetItem(i)
    \/ \E i \in 1..Len(data.ks), value \in NewValues : ProxySetItem(i, value)

ProxySpec == ProxyInit /\ [][ProxyNext]_vars

(***************************************************************************)
(* RemoteCollectionsEditorTableView: the view of the variables of a        *)
(* console, with its CollectionsModel (remote=True) and its                *)
(* CollectionsCustomSortFilterProxy.  The collection of the model is the   *)
(* remote view the namespace browser hands to set_data: a dict from the    *)
(* names of the variables to the records the console made of them.  A      *)
(* record is given here by the value it describes: its 'size' and 'type'   *)
(* are get_size and get_human_readable_type of the value, its 'view' the   *)
(* text value_to_display makes of it.                                      *)
(***************************************************************************)
\* The name and the value of the i-th variable of a console.
VarName(i) ==
    IF i < Len(Names) THEN PyStr(Names[i])
    ELSE PyStr(<<"y">> \o DigitsOfInt(i))
VarValue(i) ==
    IF i % 4 = 1 THEN PyInt(i)
    ELSE IF i % 4 = 2 THEN PyStr(<<"b", "2">>)
    ELSE IF i % 4 = 3 THEN PyStr(<<"1", "^2">>)
    ELSE PyStr(<<"b", "1", "0">>)

\* The variables of a console that has n of them.
NamespaceOf(n) ==
    [kind |-> "dict",
     ks |-> List([i \in 1..n |-> VarName(i)]),
     vs |-> List([i \in 1..n |-> VarValue(i)])]
Namespaces == {NamespaceOf(n) : n \in (0..MaxSmall) \cup {LARGE_NROWS + 1}}

\* re.search(get_search_regex(text), s) is not None: text occurs in s, case
\* ignored; the empty text occurs in every s.
Search(text, s) == IsSubstring(LowerStr(text), LowerStr(s))

\* A mistake in filterAcceptsRow: only the name is searched.
filterAcceptsRow_NameOnly(text, k, ty, row_num) ==
    Search(text, KeyName(k[row_num + 1]))

\* filterAcceptsRow(row_num, parent) of a proxy model with the pattern of
\* text over a model with the keys k and the types ty.
filterAcceptsRow(text, k, ty, row_num) ==
    LET name == KeyName(k[row_num + 1])
        variable_type == ty[row_num + 1].s
        r_name == Search(text, name)
        r_type == Search(text, variable_type)
    IN  IF ~r_name /\ ~r_type THEN FALSE ELSE TRUE

\* The rows the proxy model shows once it has asked filterAcceptsRow for
\* each of the rows first..last of the model.
Accepted(text, k, ty, first, last) ==
    {row_num \in first..last : filterAcceptsRow(text, k, ty, row_num)}

\* The view as constructed for the variables ns of a console.
RemoteInit ==
    \E ns \in Namespaces :
        /\ data = ns
        /\ keys = ns.ks
        /\ total_rows = Len(ns.ks)
        /\ rows_loaded = InitialRowsLoaded(Len(ns.ks))
        /\ sizes = SizesOf(ns, ns.ks, 0, InitialRowsLoaded(Len(ns.ks)))
        /\ types = TypesOf(ns, ns.ks, 0, InitialRowsLoaded(Len(ns.ks)))
        /\ letters = <<>>
        /\ scores = ScoresOf(<<>>, ns.ks)
        /\ previous_sort = -1
        /\ sort_indicator = <<0, Asc>>
        /\ inserted = <<>>
        /\ readonly = FALSE
        /\ selected = <<>>
        /\ outcome = NoOutcome
        /\ last_op = Op("init", -1, Asc, 0)
        /\ nops = 0
        /\ pattern = <<>>
        /\ visible = 0..(InitialRowsLoaded(Len(ns.ks)) - 1)
        /\ var_properties = {}
        /\ namespace = ns
        /\ calls = <<>>
        /\ NoDialog

\* What an operation of the view sets besides the model, the proxy model and
\* the console.
RemoteHandled(op, col, rows, n) ==
    /\ nops < (IF total_rows > MaxSmall + 1 THEN MaxLargeOps ELSE MaxOps)
    /\ selected' = rows
    /\ UNCHANGED <<readonly, previous_sort>>
    /\ UNCHANGED dialog_vars
    /\ last_op' = Op(op, col, Asc, n)
    /\ nops' = nops + 1

\* The texts typed into the finder.
FindTexts == { <<>>, <<"b">>, <<"B", " ">>, <<"i", "n", "t">> }

\* text.replace(' ', '').lower()
Normalized(text) ==
    LET NoSpace(c) == c # " " IN LowerStr(SelectSeq(text, NoSpace))

\* do_find(text): everything is loaded, the proxy model takes the pattern
\* and filters the rows again, the model scores its keys, and the view sorts
\* by the score when there is a text.
DoFind(raw) ==
    LET text == Normalized(raw)
    IN  /\ RemoteHandled("do_find", -1, <<>>, 0)
        /\ FetchMoreBody(total_rows)
        /\ pattern' = text
        /\ visible' = Accepted(text, keys, types', 0, rows_loaded' - 1)
        /\ letters' = text
        /\ IF Len(keys) > 0 THEN scores' = ScoresOf(text, keys)
           ELSE UNCHANGED scores
        /\ sort_indicator' = IF text # <<>> THEN <<4, Desc>>
                             ELSE sort_indicator
        /\ outcome' = NoOutcome
        /\ calls' = <<>>
        /\ UNCHANGED <<data, keys, total_rows, var_properties, namespace>>

\* The namespace browser hands the view the variables ns of the console:
\* set_data(ns).  The model is reset and the proxy model filters its rows
\* again, with the pattern it has.
RefreshData(ns) ==
    /\ RemoteHandled("set_data", -1, <<>>, 0)
    /\ SetDataTo(ns)
    /\ visible' = Accepted(pattern, ns.ks, types', 0, rows_loaded' - 1)
    /\ namespace' = ns
    /\ inserted' = <<>>
    /\ outcome' = NoOutcome
    /\ calls' = <<>>
    /\ UNCHANGED <<pattern, var_properties, sort_indicator>>

\* The view is scrolled to its end: fetchMore().  The proxy model filters
\* the rows that were inserted.
RemoteFetchMore ==
    /\ RemoteHandled("fetchMore", -1, <<>>, 0)
    /\ FetchMoreBody(0)
    /\ visible' = visible \cup
                    Accepted(pattern, keys, types', rows_loaded,
                             rows_loaded' - 1)
    /\ outcome' = NoOutcome
    /\ calls' = <<>>
    /\ UNCHANGED <<data, keys, total_rows, letters, scores, sort_indicator,
                   pattern, var_properties, namespace>>

\* A click on the header of a column: sectionClicked calls load_all() of the
\* model, and the proxy model sorts its rows by the column.
SectionClicked(column, order) ==
    /\ RemoteHandled("load_all", column, <<>>, total_rows)
    /\ FetchMoreBody(total_rows)
    /\ visible' = visible \cup
                    Accepted(pattern, keys, types', rows_loaded,
                             rows_loaded' - 1)
    /\ sort_indicator' = <<column, order>>
    /\ outcome' = NoOutcome
    /\ calls' = <<>>
    /\ UNCHANGED <<data, keys, total_rows, letters, scores, pattern,
                   var_properties, namespace>>

\* True and False
PyBool(b) == [k |-> "bool", n |-> IF b THEN 1 ELSE 0, s |-> <<>>]

\* An operation returned value, or an exception of class cls left it.
Returned(value) == [raised |-> "", value |-> value]
Raised(cls) == [raised |-> cls, value |-> PyNone]

\* l[i] of a list l: IndexError when i is not below len(l).
\* get_key(index) for index.row() = row
get_key(row) ==
    IF row >= Len(keys) THEN Raised("IndexError") ELSE Returned(keys[row + 1])

\* A mistake in get_value: every column is read through the loaded metadata.
get_value_LoadedOnly(row, column) ==
    IF row >= Len(types) THEN Raised("IndexError")
    ELSE IF column = 0 THEN Returned(keys[row + 1])
    ELSE IF column = 1 THEN Returned(types[row + 1])
    ELSE IF column = 2 THEN Returned(sizes[row + 1])
    ELSE Returned(GetItem(data, keys[row + 1]))

\* get_value(index) for index.row() = row and index.column() = column
get_value(row, column) ==
    IF column = 0
    THEN (IF row >= Len(keys) THEN Raised("IndexError")
          ELSE Returned(keys[row + 1]))
    ELSE IF column = 1
    THEN (IF row >= Len(types) THEN Raised("IndexError")
          ELSE Returned(types[row + 1]))
    ELSE IF column = 2
    THEN (IF row >= Len(sizes) THEN Raised("IndexError")
          ELSE Returned(sizes[row + 1]))
    ELSE (IF row >= Len(keys) THEN Raised("IndexError")
          ELSE Returned(GetItem(data, keys[row + 1])))

\* The rows that are read: the first and the last loaded one, the first one
\* that is not loaded, the last one of the collection, and the one after it.
ReadRows ==
    {r \in {0, rows_loaded - 1, rows_loaded, total_rows - 1, total_rows} :
        r >= 0}

\* get_key(index) is called.
GetKey(row) ==
    /\ RemoteHandled("get_key", -1, <<row>>, row)
    /\ outcome' = get_key(row)
    /\ inserted' = <<>>
    /\ calls' = <<>>
    /\ UNCHANGED <<data, keys, sizes, types, rows_loaded, total_rows, letters,
                   scores, sort_indicator, pattern, visible, var_properties,
                   namespace>>

\* get_value(index) is called.
GetValue(row, column) ==
    /\ RemoteHandled("get_value", column, <<row>>, row)
    /\ outcome' = get_value(row, column)
    /\ inserted' = <<>>
    /\ calls' = <<>>
    /\ UNCHANGED <<data, keys, sizes, types, rows_loaded, total_rows, letters,
                   scores, sort_indicator, pattern, visible, var_properties,
                   namespace>>

\* to_text_string(value) of a value that is neither text nor a number
to_text_string(value) ==
    IF value.k = "tuple"
    THEN PyStr(<<"(">> \o DigitsOfInt(value.n) \o <<",", ")">>)
    ELSE value

\* value_to_display(value) of the 'view' of a record: the text the console
\* made of the variable, the text itself for a string.
value_to_display(value) ==
    IF value.k = "int" THEN PyStr(DigitsOfInt(value.n))
    ELSE IF value.k = "list"
         THEN PyStr(<<"[">>
                    \o (IF value.n = 0 THEN <<>>
                        ELSE <<"0">>
                             \o [i \in 1..(3 * (value.n - 1)) |->
                                    IF i % 3 = 1 THEN ","
                                    ELSE IF i % 3 = 2 THEN " " ELSE "0"])
                    \o <<"]">>)
    ELSE value

\* data(index) with the role Qt.DisplayRole, for a row that is loaded: what
\* the cell of the row and the column shows.  A number stays a number,
\* everything else is text.
CellData(row, column) ==
    LET value == get_value(row, column).value
    IN  IF column = 4 THEN PyInt(scores[row + 1])
        ELSE IF column = 3 THEN value_to_display(value)
        ELSE IF value.k = "str" THEN value
        ELSE IF value.k # "int" THEN to_text_string(value)
        ELSE value

\* a < b of Python: the value, or the TypeError of operands without order
Less(a, b) ==
    IF PyCmp(a, b) = "err" THEN Raised("TypeError")
    ELSE Returned(PyBool(PyCmp(a, b) = "lt"))

\* lessThan(left, right) for cells that show leftData and rightData
lessThan(leftData, rightData) ==
    LET compared ==
            IF leftData.k = "str" /\ rightData.k = "str"
            THEN (IF natsort(leftData).k = "raises"
                  THEN Raised(natsort(leftData).s[1])
                  ELSE IF natsort(rightData).k = "raises"
                  THEN Raised(natsort(rightData).s[1])
                  ELSE Less(natsort(leftData), natsort(rightData)))
            ELSE Less(leftData, rightData)
    IN  IF compared.raised = "TypeError" THEN Returned(PyBool(TRUE))
        ELSE compared

\* The rows whose cells the proxy model compares when it sorts.
SortedRows == {r \in {0, 1, rowCount - 1} : r >= 0 /\ r < rowCount}

\* The proxy model sorts by a column and asks lessThan for the cells of the
\* rows left and right in it.
LessThan(left, right, column) ==
    /\ RemoteHandled("lessThan", column, <<left, right>>, 0)
    /\ outcome' = lessThan(CellData(left, column), CellData(right, column))
    /\ inserted' = <<>>
    /\ calls' = <<>>
    /\ UNCHANGED <<data, keys, sizes, types, rows_loaded, total_rows, letters,
                   scores, sort_indicator, pattern, visible, var_properties,
                   namespace>>

\* A call of the shell widget or of the namespace browser.
Call(f, args) == [f |-> f, args |-> args]
Refresh == Call("refresh_namespacebrowser", <<>>)

\* The exceptions a call of the shell widget fails with.
ProviderErrors == {"TypeError", "TimeoutError"}

\* shellwidget.remove_value(name) that returns: the variables of the console
\* without name.
ShellRemoveValue(ns, name) == Pop(ns, name)
\* shellwidget.set_value(name, value) that returns
ShellSetValue(ns, name, value) == Assign(ns, name, value)
\* shellwidget.copy_value(orig_name, new_name) that returns
ShellCopyValue(ns, orig_name, new_name) ==
    Assign(ns, new_name, GetItem(ns, orig_name))

\* What a method of the view that changes the console leaves alone: the
\* model and the proxy model.
RemoteMutation(op, rows, n) ==
    /\ RemoteHandled(op, -1, rows, n)
    /\ inserted' = <<>>
    /\ UNCHANGED <<data, keys, sizes, types, rows_loaded, total_rows, letters,
                   scores, sort_indicator, pattern, visible, var_properties>>

\* The names of the rows of a selection.
NamesOf(rows) == List([i \in 1..Len(rows) |-> keys[rows[i] + 1]])

\* for name in names: self.shellwidget.remove_value(name), with the calls
\* before the failing one done; failing = 0 when no call fails.
RECURSIVE RemovedUpTo(_, _, _)
RemovedUpTo(ns, names, failing) ==
    IF names = <<>> \/ failing = 1 THEN ns
    ELSE RemovedUpTo(ShellRemoveValue(ns, Head(names)), Tail(names),
                     IF failing = 0 THEN 0 ELSE failing - 1)

\* remove_values(names) for the names of the rows, of variables the console
\* has; the call of remove_value number failing raises exc.
RemoteRemoveValues(rows, failing, exc) ==
    LET names == NamesOf(rows)
        made == IF failing = 0 THEN Len(names) ELSE failing
    IN  /\ \A i \in 1..Len(names) : HasKey(namespace, names[i])
        /\ failing <= Len(names)
        /\ RemoteMutation("remove_values", rows, failing)
        /\ namespace' = RemovedUpTo(namespace, names, failing)
        /\ calls' = List([i \in 1..made |->
                             Call("remove_value", <<names[i]>>)])
                    \o (IF failing = 0 THEN <<Refresh>> ELSE <<>>)
        /\ outcome' = IF failing = 0 THEN NoOutcome ELSE Raised(exc)

\* new_value(name, value); exc is what set_value raises, "" when it returns.
\* A TypeError is shown in a message box.
RemoteNewValue(name, value, exc) ==
    /\ RemoteMutation("new_value", <<>>, 0)
    /\ namespace' = IF exc = "" THEN ShellSetValue(namespace, name, value)
                    ELSE namespace
    /\ calls' = <<Call("set_value", <<name, value>>)>>
                \o (IF exc \in {"", "TypeError"} THEN <<Refresh>> ELSE <<>>)
    /\ outcome' = IF exc \in {"", "TypeError"} THEN NoOutcome ELSE Raised(exc)

\* copy_value(orig_name, new_name) for the name of a row, of a variable the
\* console has; exc is what the shell widget's copy_value raises.
RemoteCopyValue(rows, new_name, exc) ==
    LET orig_name == keys[rows[1] + 1]
    IN  /\ Len(rows) = 1
        /\ HasKey(namespace, orig_name)
        /\ RemoteMutation("copy_value", rows, 0)
        /\ namespace' = IF exc = ""
                        THEN ShellCopyValue(namespace, orig_name, new_name)
                        ELSE namespace
        /\ calls' = <<Call("copy_value", <<orig_name, new_name>>)>>
                    \o (IF exc = "" THEN <<Refresh>> ELSE <<>>)
        /\ outcome' = IF exc = "" THEN NoOutcome ELSE Raised(exc)

\* The namespace browser asks the shell widget for the properties of the
\* names: one call for all of them.
Describe(names) == <<Call("get_var_properties", names)>>

\* A mistake in is_list ... get_array_ndim: the shell widget is asked.
PropertyCalls_AskShell(name) == <<Call("get_value", <<name>>)>>

\* is_list(name), is_dict(name), get_len(name), is_array(name),
\* is_image(name), is_data_frame(name), is_series(name),
\* get_array_shape(name) and get_array_ndim(name): the calls they make.
\* Each reads self.var_properties[name].
PropertyCalls(name) == <<>>

\* The calls the accessors make for each of the names
RECURSIVE AllPropertyCalls(_)
AllPropertyCalls(names) ==
    IF names = <<>> THEN <<>>
    ELSE PropertyCalls(Head(names)) \o AllPropertyCalls(Tail(names))

\* The properties of the variables shown on the loaded page are obtained:
\* the namespace browser fills var_properties, then the accessors of the
\* view are asked for every name of the page.
PageProperties ==
    LET names == SubSeq(keys, 1, rowCount)
    IN  /\ RemoteHandled("properties", -1, <<>>, Len(names))
        /\ var_properties' = {names[i] : i \in 1..Len(names)}
        /\ calls' = Describe(names) \o AllPropertyCalls(names)
        /\ outcome' = NoOutcome
        /\ inserted' = <<>>
        /\ UNCHANGED <<data, keys, sizes, types, rows_loaded, total_rows,
                       letters, scores, sort_indicator, pattern, visible,
                       namespace>>

RemoteNext ==
    \/ \E raw \in FindTexts : DoFind(raw)
    \/ \E ns \in Namespaces \cup {namespace} : RefreshData(ns)
    \/ RemoteFetchMore
    \/ \E column \in {0, 3}, order \in Orders : SectionClicked(column, order)
    \/ \E row \in ReadRows : GetKey(row)
    \/ \E row \in ReadRows, column \in Columns : GetValue(row, column)
    \/ \E left \in SortedRows, right \in SortedRows, column \in Columns :
           LessThan(left, right, column)
    \/ \E rows \in Selections, failing \in 0..2, exc \in {"TimeoutError"} :
           RemoteRemoveValues(rows, failing, exc)
    \/ \E name \in KeyAnswers, value \in ValueAnswers,
          exc \in ProviderErrors \cup {""} :
           RemoteNewValue(name, value, exc)
    \/ \E rows \in Selections, new_name \in KeyAnswers,
          exc \in {"", "TimeoutError"} :
           RemoteCopyValue(rows, new_name, exc)
    \/ PageProperties

RemoteSpec == RemoteInit /\ [][RemoteNext]_vars

(***************************************************************************)
(* CollectionsEditor: the dialog that shows a working copy of a collection *)
(* in a CollectionsEditorTableView, with the buttons Save and Close and    *)
(* Close.  The model of the view holds the collection of data_copy.        *)
(***************************************************************************)
\* The objects of a dialog: the data passed to setup, the copy setup makes
\* of it, and what the data function returns.
PassedId == 1
CopyId == 2
FetchedId == 3

\* The classes of the collections passed to setup: the builtin type of the
\* kind, or a subclass of it that inherits copy() and slicing.
Classes == {"builtin", "subclass"}

\* The copy setup takes of data, the object obj with the collection d:
\* data.copy() of a dict, set or frozenset and data[:] of a list or tuple
\* give the builtin type, and for a tuple and a frozenset of the builtin
\* type the object itself; another object is deep-copied, and it is data
\* itself when deepcopy raises TypeError or AttributeError.
CopyOf(d, obj, deepcopies) ==
    IF d.kind = "object"
    THEN (IF deepcopies THEN Object(CopyId, obj.cls) ELSE obj)
    ELSE IF d.kind \in {"tuple", "frozenset"} /\ obj.cls = "builtin" THEN obj
    ELSE Object(CopyId, "builtin")

\* A mistake in setup: the types of the copy and of data are not compared.
TypeMismatch_Never(copy, obj) == FALSE

\* type(self.data_copy) != type(data), for a copy of the object obj
TypeMismatch(copy, obj) == copy.cls # obj.cls

\* The collections a dialog is opened with.
DialogCollections == CollectionsOf(0..MaxSmall, {"mixed"})

\* setup(data, readonly=readonly_arg): the dialog with its widget, the view
\* of the widget and the model of the view, as EditInit for the view.
DialogInit ==
    \E d \in DialogCollections, cls \in Classes,
       readonly_arg \in BOOLEAN, deepcopies \in BOOLEAN :
        LET obj == Object(PassedId, cls)
            copy == CopyOf(d, obj, deepcopies)
            ro == \/ readonly_arg
                  \/ d.kind = "object" /\ ~deepcopies
                  \/ TypeMismatch(copy, obj)
        IN  /\ d.kind = "object" => cls = "builtin"
            /\ d.kind # "object" => deepcopies
            /\ data = d
            /\ keys = d.ks
            /\ total_rows = Len(d.ks)
            /\ rows_loaded = InitialRowsLoaded(Len(d.ks))
            /\ sizes = SizesOf(d, d.ks, 0, InitialRowsLoaded(Len(d.ks)))
            /\ types = TypesOf(d, d.ks, 0, InitialRowsLoaded(Len(d.ks)))
            /\ letters = <<>>
            /\ scores = ScoresOf(<<>>, d.ks)
            /\ previous_sort = IF d.kind = "dict" THEN -1 ELSE 0
            /\ sort_indicator =
                   IF d.kind = "dict" THEN <<-1, Asc>> ELSE <<0, Asc>>
            /\ inserted = <<>>
            /\ readonly = (ro \/ d.kind \in {"tuple", "set", "frozenset"})
            /\ selected = <<>>
            /\ outcome = NoOutcome
            /\ last_op = Op("init", -1, Asc, 0)
            /\ nops = 0
            /\ NoConsole
            /\ data_copy = copy
            /\ original = obj
            /\ btn_save_and_close = IF ro THEN "None" ELSE "disabled"
            /\ result = ""

\* The dialog is open.
Open == result = ""

\* refresh_menu(): what enables the actions of the context menu and of the
\* toolbar for the selection rows.
condition_edit(rows) ==
    /\ get_data.kind \notin {"tuple", "set", "frozenset"}
    /\ Len(rows) = 1
    /\ ~readonly
condition_remove(rows) ==
    /\ get_data.kind \notin {"tuple", "set", "frozenset"}
    /\ Len(rows) > 0
    /\ ~readonly

\* What asks a handler of the view to run: a key handled by keyPressEvent,
\* or an action of the menu, which cannot be triggered while refresh_menu
\* has it disabled.
Requested(via, rows) ==
    /\ Open
    /\ IF via \in {"Key_Delete", "Key_F2"} THEN TRUE
       ELSE IF via = "remove" THEN condition_remove(rows)
       ELSE IF via = "insert" THEN get_data.kind = "dict" /\ ~readonly
       ELSE condition_edit(rows)

\* remove_item(), its question answered Yes, from the key Delete or from
\* the action Remove.
RemoveRequested(via, rows) ==
    /\ Requested(via, rows)
    /\ RemoveItem(rows)

\* rename_item() from the key F2 or from the action Rename, and
\* duplicate_item() from the action Duplicate.
CopyRequested(via, rows) ==
    /\ Requested(via, rows)
    /\ CopyItem(rows, via # "duplicate")

\* insert_item(below) from the actions Insert above and Insert below, and
\* insert_item() from the action Insert.
InsertRequested(via, rows) ==
    /\ Requested(via, rows)
    /\ InsertItem(rows, via # "insert_above")

\* The order a click on the header of a column asks for: the other order
\* when the sort indicator is on the column, ascending otherwise.
ClickedOrder(column) ==
    IF sort_indicator[1] = column THEN ~sort_indicator[2] ELSE Asc

\* Number of clicks on the header of a view in a dialog, the other
\* operations on it included.
MaxClicks == 3

\* A click on the header of a column: the model's sort(column, order).
HeaderClicked(column) ==
    /\ Open
    /\ nops < MaxClicks
    /\ SortCalled(column, ClickedOrder(column))

\* The delegate commits an edited value to a row: set_value of the model,
\* which only the editable model has.
SetModelData(row, value) ==
    /\ Open
    /\ SetValue(row, value)

\* What the data function returns: a collection in a new object, or the
\* exception it raises.
Fetched ==
    {MakeData(kind, 2, "names", "mixed") : kind \in {"list", "dict", "tuple"}}
NoLongerExists == {"IndexError", "KeyError"}

\* What an operation of the dialog itself sets besides the dialog.
DialogHandled(op) ==
    /\ Open
    /\ nops < MaxOps
    /\ selected' = <<>>
    /\ inserted' = <<>>
    /\ UNCHANGED readonly
    /\ UNCHANGED remote_vars
    /\ last_op' = Op(op, -1, Asc, 0)
    /\ nops' = nops + 1

\* The dialog is left as it is.
DialogUnchanged ==
    UNCHANGED <<data, keys, sizes, types, rows_loaded, total_rows,
                previous_sort, letters, scores, sort_indicator, data_copy,
                original, btn_save_and_close>>

\* A mistake in refresh_editor: the view is given a copy of the new value.
Refreshed_Copied(new_object) == Object(CopyId, new_object.cls)

\* refresh_editor(): the object data_copy refers to afterwards
Refreshed(new_object) == new_object

\* refresh_editor(), with the answer to the question it asks when Save and
\* Close is enabled, and with what the data function returns, or raises
\* when raised is not "".
RefreshEditor(confirmed, fetched, raised) ==
    /\ DialogHandled("refresh_editor")
    /\ IF btn_save_and_close = "enabled" /\ ~confirmed
       THEN /\ DialogUnchanged
            /\ UNCHANGED result
            /\ outcome' = NoOutcome
       ELSE IF raised # ""
       THEN /\ DialogUnchanged
            /\ result' = "rejected"
            /\ outcome' = NoOutcome
       ELSE /\ ViewSetDataAfter(fetched, sort_indicator, previous_sort)
            /\ data_copy' = Refreshed(Object(FetchedId, "builtin"))
            /\ original' = Object(FetchedId, "builtin")
            /\ btn_save_and_close' =
                   IF btn_save_and_close = "None" THEN "None" ELSE "disabled"
            /\ UNCHANGED result
            /\ outcome' = NoOutcome

\* get_value()
CollectionsEditor_get_value == data_copy

\* A click on Save and Close, which is there and enabled: accept().
Accept ==
    /\ DialogHandled("accept")
    /\ btn_save_and_close = "enabled"
    /\ DialogUnchanged
    /\ result' = "accepted"
    /\ outcome' = NoOutcome

\* A click on Close: reject().
Reject ==
    /\ DialogHandled("reject")
    /\ DialogUnchanged
    /\ result' = "rejected"
    /\ outcome' = NoOutcome

DialogNext ==
    \/ \E via \in {"Key_Delete", "remove"}, rows \in Selections :
           RemoveRequested(via, rows)
    \/ \E via \in {"Key_F2", "rename", "duplicate"}, rows \in Selections :
           CopyRequested(via, rows)
    \/ \E via \in {"insert_above", "insert_below", "insert"},
          rows \in Selections :
           InsertRequested(via, rows)
    \/ \E column \in 0..3 : HeaderClicked(column)
    \/ \E row \in EditRows, value \in NewValues : SetModelData(row, value)
    \/ \E confirmed \in BOOLEAN, fetched \in Fetched,
          raised \in NoLongerExists \cup {""} :
           RefreshEditor(confirmed, fetched, raised)
    \/ Accept
    \/ Reject

DialogSpec == DialogInit /\ [][DialogNext]_vars

(***************************************************************************)
(* natsort as the sort key of the keys of a dict whose keys are all text.  *)
(***************************************************************************)
\* Texts that are keys of a dict: with and without digit runs, and with a
\* digit that is not a decimal one.
TextNames == { <<>>, <<"a">>, <<"B", "1">>, <<"b", "2">>, <<"b", "1", "0">>,
               <<"2">>, <<"1", "^2">>, <<"a", "^2">> }

\* The dicts of two entries whose keys are two different texts.
TextDicts ==
    {[kind |-> "dict",
      ks |-> <<PyStr(t[1]), PyStr(t[2])>>,
      vs |-> <<PyInt(1), PyInt(2)>>] :
        t \in {u \in TextNames \X TextNames : u[1] # u[2]}}

\* The table model as constructed for a dict of text keys.
NatsortInit ==
    \E d \in TextDicts :
        /\ data = d
        /\ keys = d.ks
        /\ total_rows = Len(d.ks)
        /\ rows_loaded = InitialRowsLoaded(Len(d.ks))
        /\ sizes = SizesOf(d, d.ks, 0, InitialRowsLoaded(Len(d.ks)))
        /\ types = TypesOf(d, d.ks, 0, InitialRowsLoaded(Len(d.ks)))
        /\ letters = <<>>
        /\ scores = ScoresOf(<<>>, d.ks)
        /\ previous_sort = -1
        /\ sort_indicator = <<-1, Asc>>
        /\ inserted = <<>>
        /\ readonly = FALSE
        /\ selected = <<>>
        /\ outcome = NoOutcome
        /\ last_op = Op("init", -1, Asc, 0)
        /\ nops = 0
        /\ NoConsole
        /\ NoDialog

\* natsort(a) < natsort(b) for the keys a and b of the rows left and right,
\* as a sort with key=natsort evaluates it: the keys first, then the
\* comparison of the two lists.
NatsortLess(left, right) ==
    /\ nops < MaxOps
    /\ outcome' =
           LET a == natsort(keys[left + 1])
               b == natsort(keys[right + 1])
           IN  IF a.k = "raises" THEN Raised(a.s[1])
               ELSE IF b.k = "raises" THEN Raised(b.s[1])
               ELSE Less(a, b)
    /\ selected' = <<left, right>>
    /\ last_op' = Op("natsort", 0, Asc, 0)
    /\ nops' = nops + 1
    /\ inserted' = <<>>
    /\ UNCHANGED <<data, keys, sizes, types, rows_loaded, total_rows,
                   previous_sort, letters, scores, sort_indicator, readonly>>
    /\ UNCHANGED remote_vars
    /\ UNCHANGED dialog_vars

NatsortNext ==
    \/ \E left \in 0..1, right \in 0..1 : NatsortLess(left, right)
    \/ \E order \in Orders : Sort(0, order)

NatsortSpec == NatsortInit /\ [][NatsortNext]_vars

(***************************************************************************)
(* Properties.                                                             *)
(***************************************************************************)
\* The metadata of the first n rows is that of the values under their keys.
Lockstep(d, k, sz, ty, n) ==
    \A i \in 1..n :
        /\ sz[i] = get_size(GetItem(d, k[i]))
        /\ ty[i] = get_human_readable_type(GetItem(d, k[i]))

\* The keys k are the keys of the collection d, each once.
IsPermutationOfKeys(k, d) ==
    /\ Len(k) = Len(d.ks)
    /\ \A i \in 1..Len(d.ks) : \E j \in 1..Len(k) : k[j] = d.ks[i]
    /\ \A i \in 1..Len(k) : \E j \in 1..Len(d.ks) : k[i] = d.ks[j]

\* C1: right after the model is constructed or set_data has run on a
\* collection of N entries, rows_loaded is min(N, ROWS_TO_LOAD) when
\* N > LARGE_NROWS and N otherwise.
C1_RowsLoadedAfterSetData ==
    last_op.op \in {"init", "set_data"} =>
        /\ total_rows = Len(data.ks)
        /\ total_rows > LARGE_NROWS =>
               rows_loaded = Min(total_rows, ROWS_TO_LOAD)
        /\ total_rows <= LARGE_NROWS => rows_loaded = total_rows

\* set_data has given the open editor a large collection, of which
\* ROWS_TO_LOAD rows are loaded.
C1_Witness ==
    /\ last_op.op = "set_data"
    /\ total_rows > LARGE_NROWS
    /\ rows_loaded = ROWS_TO_LOAD

\* C2 as stated: in every reachable state keys, sizes and types all have
\* rows_loaded entries, and rows_loaded <= total_rows.
C2_AllListsHaveRowsLoaded ==
    /\ Len(keys) = Len(sizes)
    /\ Len(sizes) = Len(types)
    /\ Len(types) = rows_loaded
    /\ rows_loaded <= total_rows

\* C2 as amended: in every reachable state sizes and types have rows_loaded
\* entries, rows_loaded <= total_rows, and keys has at least total_rows
\* entries.
C2_MetadataHasRowsLoaded ==
    /\ Len(sizes) = rows_loaded
    /\ Len(types) = rows_loaded
    /\ rows_loaded <= total_rows
    /\ total_rows <= Len(keys)

\* A partially loaded collection after a fetch: more keys than sizes.
C2_Witness ==
    /\ last_op.op = "fetchMore"
    /\ rows_loaded > ROWS_TO_LOAD
    /\ rows_loaded < total_rows
    /\ Len(keys) > Len(sizes)

\* C3: after sort(column, order), for every loaded row i, sizes[i] and
\* types[i] are the size and type of the value stored under keys[i].
C3_SortKeepsLockstep ==
    last_op.op = "sort" => Lockstep(data, keys, sizes, types, rows_loaded)

\* C4: in every reachable state keys has no duplicates and is a permutation
\* of the keys of the collection.
C4_KeysArePermutation == IsPermutationOfKeys(keys, data)

\* C6: between two set_data calls rows_loaded never decreases, and only
\* fetchMore and load_all change it.
C6_RowsLoadedGrowsOnlyInFetch ==
    [][last_op'.op # "set_data" =>
          /\ rows_loaded' >= rows_loaded
          /\ rows_loaded' # rows_loaded =>
                 last_op'.op \in {"fetchMore", "load_all"}]_vars

\* A sort after a fetch: rows_loaded is what the fetch left.
C6_Witness ==
    /\ last_op.op = "sort"
    /\ rows_loaded = ROWS_TO_LOAD + 1
    /\ rows_loaded < total_rows

\* C7: when rows_loaded = total_rows, a fetchMore or load_all changes
\* nothing: rows_loaded, sizes, types and keys are unchanged and no rows are
\* announced as inserted.
C7_FetchAtTailIsNoOp ==
    [][(rows_loaded = total_rows /\ last_op'.op \in {"fetchMore", "load_all"})
          => /\ UNCHANGED <<rows_loaded, sizes, types, keys>>
             /\ inserted' = <<>>]_vars

\* A fetchMore on a large collection that an earlier call has loaded
\* entirely.
C7_Witness ==
    /\ last_op.op = "fetchMore"
    /\ nops >= 2
    /\ inserted = <<>>
    /\ rows_loaded = total_rows
    /\ total_rows > LARGE_NROWS

\* C8: fetchMore(n) with rows_loaded < total_rows increases rows_loaded by
\* min(total_rows - rows_loaded, n), n being ROWS_TO_LOAD by default, appends
\* to sizes and types the metadata of the keys of the new rows, and leaves
\* the loaded prefix of sizes and types unchanged.
C8_FetchAppendsNewRows ==
    [][(rows_loaded < total_rows /\ last_op'.op \in {"fetchMore", "load_all"})
          => LET n == IF last_op'.n = 0 THEN ROWS_TO_LOAD ELSE last_op'.n
                 new_loaded == rows_loaded + Min(total_rows - rows_loaded, n)
             IN  /\ rows_loaded' = new_loaded
                 /\ Len(sizes') = Len(sizes) + (new_loaded - rows_loaded)
                 /\ Len(types') = Len(types) + (new_loaded - rows_loaded)
                 /\ SubSeq(sizes', 1, Len(sizes)) = sizes
                 /\ SubSeq(types', 1, Len(types)) = types
                 /\ \A i \in (rows_loaded + 1)..new_loaded :
                        /\ sizes'[i] = get_size(GetItem(data, keys[i]))
                        /\ types'[i] =
                               get_human_readable_type(GetItem(data, keys[i]))]_vars

\* fetchMore(1) has loaded one row more of a large collection.
C8_Witness ==
    /\ last_op = Op("fetchMore", -1, Asc, 1)
    /\ inserted = <<ROWS_TO_LOAD, ROWS_TO_LOAD>>
    /\ rows_loaded = ROWS_TO_LOAD + 1

C10_NoRevertForNonMapping ==
    [][(data.kind # "dict" /\ last_op'.op = "sort")
          => /\ previous_sort' = last_op'.col
             /\ previous_sort' # -1
             /\ sort_indicator' = <<last_op'.col, last_op'.rev>>]_vars

\* An object whose attributes were sorted by sort(0, Asc) twice in a row
\* and are still sorted by column 0.
C10_Witness ==
    /\ data.kind = "object"
    /\ last_op = Op("sort", 0, Asc, 0)
    /\ previous_sort = 0
    /\ sort_indicator = <<0, Asc>>
    /\ Len(keys) >= 2
    /\ keys # data.ks


\* C11: set_data discards the sort state with everything else derived: right
\* after it keys are the new collection's keys in its order, sizes and types
\* are those of the values under them, and no previous sort column is
\* remembered, so that a following sort(c, Asc) on a dict sorts by c.
C11_SetDataForgetsSort ==
    [][last_op'.op = "set_data" =>
          /\ keys' = data'.ks
          /\ Lockstep(data', keys', sizes', types', rows_loaded')
          /\ previous_sort' = -1]_vars

\* The sort keys sort(column, order) compares in the .sort() of its branch
\* for column; the sort_against calls of the branch compare the first of them.
SortedBy(column) ==
    IF column = 0
    THEN SortKeys(keys, IF all_string(keys) THEN "natsort" ELSE "None")
    ELSE IF column = 1 THEN types
    ELSE IF column = 2 THEN sizes
    ELSE List([i \in 1..Len(keys) |-> GetItem(data, keys[i])])

\* A comparison raises during sort(column, order).
ComparisonRaises(column, order) ==
    /\ column \in Columns
    /\ ~RevertsToInsertionOrder(column, order)
    /\ SortRaises(SortedBy(column))

\* C12: a sort(column, order) during which a comparison raises returns with
\* keys, sizes and types as they were before the call, in length and in
\* order, also when only a part of the rows is loaded.
C12_FailedSortChangesNothing ==
    [][(/\ last_op'.op = "sort"
        /\ ComparisonRaises(last_op'.col, last_op'.rev))
          => UNCHANGED <<keys, sizes, types>>]_vars


C13_EditKeepsRowsLoaded ==
    [][(/\ last_op'.op \in {"remove_item", "insert_item", "duplicate_item"}
        /\ ~readonly)
          => rows_loaded' >= rows_loaded - (IF last_op'.op = "remove_item"
                                            THEN Len(selected') ELSE 0)]_vars

\* The entries of the collection d whose keys are not in K, in their order.
Without(d, K) ==
    LET kept == {i \in 1..Len(d.ks) : d.ks[i] \notin K}
        nth == List([j \in 1..Cardinality(kept) |->
                        CHOOSE i \in kept :
                            Cardinality({h \in kept : h < i}) = j - 1])
    IN  [ks |-> Permute(d.ks, nth), vs |-> Permute(d.vs, nth)]

\* C14: remove of two selected rows with the keys k1 and k2 leaves the
\* collection without the entries that were at k1 and k2, total_rows - 2
\* rows, whichever of the two was selected first.
C14_RemoveTwoInEitherOrder ==
    [][(/\ last_op'.op = "remove_item"
        /\ Len(selected') = 2
        /\ ~readonly)
          => LET K == {keys[selected'[1] + 1], keys[selected'[2] + 1]}
             IN  /\ data'.vs = Without(data, K).vs
                 /\ data.kind = "dict" => data'.ks = Without(data, K).ks
                 /\ total_rows' = total_rows - 2]_vars

\* C16: insert above or below the selected row of a list puts one new value
\* immediately before or after the element shown in that row, the one at the
\* position that is the row's key, whatever the sort order; the other
\* elements keep their order and the keys are the new positions.
C16_InsertAtDisplayedElement ==
    [][(/\ last_op'.op = "insert_item"
        /\ ~readonly
        /\ data.kind = "list"
        /\ selected' # <<>>)
          => LET p == keys[selected'[1] + 1].n
                 at == IF last_op'.n = 1 THEN p + 1 ELSE p
             IN  /\ Len(data'.vs) = Len(data.vs) + 1
                 /\ SubSeq(data'.vs, 1, at) = SubSeq(data.vs, 1, at)
                 /\ SubSeq(data'.vs, at + 2, Len(data'.vs))
                        = SubSeq(data.vs, at + 1, Len(data.vs))
                 /\ data'.ks = ListOf(data'.vs).ks]_vars

\* C17: insert_item on a view of a set or a frozenset, or on a read-only
\* view, changes neither the model's data nor its keys nor total_rows.
C17_InsertRejectedWhenReadOnly ==
    [][(last_op'.op = "insert_item" /\ readonly)
          => UNCHANGED <<data, keys, total_rows>>]_vars

\* C18: rename of a row whose key is not a string returns before anything
\* is copied or removed: data, keys, sizes and types are unchanged.
C18_RenameOfNonStringKeyRejected ==
    [][(/\ last_op'.op = "rename_item"
        /\ Len(selected') = 1
        /\ keys[selected'[1] + 1].k # "str")
          => /\ UNCHANGED <<data, keys, sizes, types>>
             /\ outcome'.raised = ""]_vars

\* Rename was called on the row of an integer key of a dict.
C18_Witness ==
    /\ last_op.op = "rename_item"
    /\ Len(selected) = 1
    /\ data.kind = "dict"
    /\ keys[selected[1] + 1].k = "int"
    /\ outcome.raised = ""


\* C19 as stated: __setitem__ passes over a failure of setattr with
\* AttributeError, NotImplementedError, TypeError or ValueError, the classes
\* __getitem__ catches, and raises every other one.
C19_SetDiscardsTheFourClasses ==
    (last_op.op = "__setitem__" /\ IsRaises(data.st[last_op.n]))
        => outcome.raised =
               IF data.st[last_op.n].s[1] \in
                      {"AttributeError", "NotImplementedError", "TypeError",
                       "ValueError"}
               THEN "" ELSE data.st[last_op.n].s[1]

\* C19: __setitem__ passes over a failure of setattr with TypeError,
\* AttributeError or NotImplementedError, and one with any other exception
\* whose message contains "cannot set values for"; every other exception,
\* a ValueError with another message included, leaves __setitem__.
C19_SetDiscardsThreeClassesAndMessage ==
    (last_op.op = "__setitem__" /\ IsRaises(data.st[last_op.n]))
        => LET exc == data.st[last_op.n]
           IN  outcome.raised =
                   IF \/ exc.s[1] \in {"TypeError", "AttributeError",
                                       "NotImplementedError"}
                      \/ exc.n = 1
                   THEN "" ELSE exc.s[1]

\* A RuntimeError saying "cannot set values for" was passed over.
C19_Witness ==
    /\ last_op.op = "__setitem__"
    /\ data.st[last_op.n] = Raises("RuntimeError", 1)
    /\ outcome.raised = ""

\* C20: __getitem__ returns None, and no exception leaves it, when getattr
\* raises AttributeError (also for a name that is not found),
\* NotImplementedError, TypeError or ValueError.
C20_GetReturnsNoneOnError ==
    (/\ last_op.op = "__getitem__"
     /\ \/ last_op.n = 0
        \/ /\ last_op.n > 0
           /\ IsRaises(data.vs[last_op.n])
           /\ data.vs[last_op.n].s[1] \in
                  {"AttributeError", "NotImplementedError", "TypeError",
                   "ValueError"})
        => outcome = [raised |-> "", value |-> PyNone]

\* The getter of an attribute raised ValueError and None was returned.
C20_Witness ==
    /\ last_op.op = "__getitem__"
    /\ last_op.n = 1
    /\ data.vs[1] = Raises("ValueError", 0)
    /\ outcome = [raised |-> "", value |-> PyNone]


\* C22: the kind of collection the model determined when the view was opened
\* is fixed: after a remove, a duplicate or a rename that the view carried
\* out, all of which hand the view's own collection back to set_data, the
\* model holds a collection of the kind it held before.
C22_KindIsFixed ==
    [][(/\ last_op'.op \in {"remove_item", "duplicate_item", "rename_item"}
        /\ outcome'.raised = "")
       => data'.kind = data.kind]_vars


\* The object a view was opened on: what the innermost proxy wraps.
RECURSIVE TheObject(_)
TheObject(d) ==
    IF "wrapped" \in DOMAIN d THEN TheObject(d.wrapped) ELSE d

\* The attribute names of an object
AttrNamesOf(obj) == {obj.ks[i] : i \in 1..Len(obj.ks)}

\* C21: in a view of an object, insert, remove and duplicate neither add nor
\* delete an attribute: the object has the same attribute names after any of
\* them.
C21_ObjectKeepsItsAttributes ==
    [][(/\ data.kind = "object"
        /\ last_op'.op \in {"insert_item", "remove_item", "duplicate_item"})
       => AttrNamesOf(TheObject(data')) = AttrNamesOf(TheObject(data))]_vars


C24_FilterSeesAllRows ==
    pattern # <<>> => rows_loaded = total_rows

\* C25: lessThan never raises, whatever the two cells show.
C25_LessThanNeverRaises ==
    last_op.op = "lessThan" => outcome.raised = ""

\* The text before the first digit of a name, and the digits after it.
TextOf(name) ==
    SubSeq(name, 1, Cardinality({i \in 1..Len(name) :
                                    \A j \in 1..i : ~isdigit(name[j])}))
DigitsOf(name) == SubSeq(name, Len(TextOf(name)) + 1, Len(name))

\* C26: of two names that are the same text followed by a run of digits
\* each, lessThan puts the one with the smaller number first.
C26_DigitRunsCompareByValue ==
    (last_op.op = "lessThan" /\ last_op.col = 0) =>
        LET l == keys[selected[1] + 1].s
            r == keys[selected[2] + 1].s
        IN  (/\ TextOf(l) = TextOf(r)
             /\ DigitsOf(l) # <<>> /\ \A i \in 1..Len(DigitsOf(l)) :
                                          isdigit(DigitsOf(l)[i])
             /\ DigitsOf(r) # <<>> /\ \A i \in 1..Len(DigitsOf(r)) :
                                          isdigit(DigitsOf(r)[i]))
            => outcome = Returned(PyBool(IntOfDigits(DigitsOf(l))
                                            < IntOfDigits(DigitsOf(r))))

\* b2 is less than b10 for lessThan, and greater by code points.
C26_Witness ==
    /\ last_op.op = "lessThan" /\ last_op.col = 0
    /\ keys[selected[1] + 1] = PyStr(<<"b", "2">>)
    /\ keys[selected[2] + 1] = PyStr(<<"b", "1", "0">>)
    /\ outcome = Returned(PyBool(TRUE))
    /\ CmpChars(<<"b", "2">>, <<"b", "1", "0">>) = "gt"

\* C27: every new_value, remove_values and copy_value of the view of a
\* console that returns, or that has changed the variables of the console,
\* asks the namespace browser for a reload exactly once, after the last
\* call of the shell widget; the model is not changed by the operation
\* itself.
C27_OneReloadAfterEveryMutation ==
    [][(/\ last_op'.op \in {"new_value", "remove_values", "copy_value"}
        /\ (outcome'.raised = "" \/ namespace' # namespace))
       => /\ calls' # <<>>
          /\ calls'[Len(calls')] = Refresh
          /\ Cardinality({i \in 1..Len(calls') : calls'[i] = Refresh}) = 1
          /\ UNCHANGED <<data, keys, sizes, types, rows_loaded,
                         total_rows>>]_vars

\* C28: when a call of the shell widget fails in new_value, remove_values or
\* copy_value, everything is as before the operation: the model and the
\* variables of the console.
C28_FailedCallChangesNothing ==
    [][(/\ last_op'.op \in {"new_value", "remove_values", "copy_value"}
        /\ outcome'.raised # "")
       => UNCHANGED <<data, keys, sizes, types, rows_loaded, total_rows,
                      namespace>>]_vars

C30_UnloadedRowIsOutOfRange ==
    (last_op.op \in {"get_key", "get_value"} /\ last_op.n >= rows_loaded)
        => outcome.raised = "IndexError"

\* C30, amended: get_value fails with IndexError for a row that is not
\* loaded only in the columns of the type and the size; get_key, and
\* get_value in the other columns, return the key and the value of every row
\* of the collection and fail only past its last row.
C30_OnlyTypeAndSizeNeedLoadedRow ==
    LET row == last_op.n
    IN  /\ last_op.op = "get_key" =>
               outcome = IF row >= total_rows THEN Raised("IndexError")
                         ELSE Returned(keys[row + 1])
        /\ (last_op.op = "get_value" /\ last_op.col \in {1, 2}) =>
               outcome = IF row >= rows_loaded THEN Raised("IndexError")
                         ELSE IF last_op.col = 1 THEN Returned(types[row + 1])
                         ELSE Returned(sizes[row + 1])
        /\ (last_op.op = "get_value" /\ last_op.col \notin {1, 2}) =>
               outcome = IF row >= total_rows THEN Raised("IndexError")
                         ELSE IF last_op.col = 0 THEN Returned(keys[row + 1])
                         ELSE Returned(GetItem(data, keys[row + 1]))

\* The value of the first row that is not loaded is returned.
C30_Witness ==
    /\ last_op.op = "get_value" /\ last_op.col = 3
    /\ last_op.n = rows_loaded
    /\ rows_loaded < total_rows
    /\ outcome = Returned(GetItem(data, keys[rows_loaded + 1]))

\* C36: after every insert, remove, duplicate and rename of a view,
\* total_rows is the number of entries of the collection the model holds and
\* keys holds exactly its keys, also after an insert whose value dialog was
\* cancelled or left empty.
C36_KeysAndTotalRowsFollowEdits ==
    last_op.op \in {"insert_item", "remove_item", "duplicate_item",
                    "rename_item"}
        => /\ total_rows = Len(data.ks)
           /\ IsPermutationOfKeys(keys, data)

\* C37: duplicate of the row with the key k of a list appends one element
\* equal to data[k]: the list grows by exactly that element at its end, the
\* elements it had keep their positions and values, and total_rows is the
\* old total_rows + 1.
C37_DuplicateAppendsOneElement ==
    [][(/\ last_op'.op = "duplicate_item"
        /\ Len(selected') = 1
        /\ data.kind = "list")
          => LET k == keys[selected'[1] + 1]
             IN  /\ data'.kind = "list"
                 /\ data'.vs = Append(data.vs, GetItem(data, k))
                 /\ total_rows' = total_rows + 1]_vars

\* C33: remove_item on a selection of rows takes out of the collection
\* exactly the entries under the keys that those rows show, each once, and
\* no other entry, whatever the order in which the model has sorted its keys.
C33_RemoveItemRemovesShownKeys ==
    [][(last_op'.op = "remove_item" /\ selected' # <<>>)
          => LET K == {keys[selected'[i] + 1] : i \in 1..Len(selected')}
             IN  /\ data'.vs = Without(data, K).vs
                 /\ data.kind \in {"dict", "object"}
                        => data'.ks = Without(data, K).ks]_vars

\* C31: whenever the type of the working copy differs from the type of the
\* collection it was taken from, the session is read-only: the view has the
\* read-only model, on which no value is set, and the dialog has no Save and
\* Close button, so it is never accepted.
C31_TypeMismatchIsReadOnly ==
    data_copy.cls # original.cls
        => /\ readonly
           /\ last_op.op # "set_value"
           /\ btn_save_and_close = "None"
           /\ result # "accepted"

\* A list of a subclass of list was passed to setup, and Delete was pressed
\* in its dialog.
C31_Witness ==
    /\ data_copy = Object(CopyId, "builtin")
    /\ original = Object(PassedId, "subclass")
    /\ data.kind = "list"
    /\ last_op.op = "remove_item"
    /\ readonly
    /\ btn_save_and_close = "None"

\* The sort that a click on the header of the column c asked the model for
\* was performed: keys, sizes and types are as sort(c, order) past its first
\* branch leaves them, and the header shows (c, order).
Performed(c, order) ==
    /\ sort_indicator' = <<c, order>>
    /\ previous_sort' = c
    /\ \E r \in SortedLists(data, keys, sizes, types, rows_loaded, c, order) :
           /\ keys' = r.keys
           /\ sizes' = r.sizes
           /\ types' = r.types

\* C32: a click on the header of the column c of the view of a dict sorts by
\* c ascending when the header's indicator was not on c, sorts by c descending
\* when it showed c ascending, and returns the keys to insertion order, with
\* no sort indicator, when it showed c descending.
C32_HeaderClicksCycle ==
    [][(last_op'.op = "sort" /\ data.kind = "dict")
          => LET c == last_op'.col
             IN  IF sort_indicator = <<c, Desc>>
                 THEN /\ sort_indicator' = <<-1, Asc>>
                      /\ previous_sort' = -1
                      /\ keys' = data.ks
                 ELSE IF sort_indicator = <<c, Asc>>
                 THEN Performed(c, Desc)
                 ELSE Performed(c, Asc)]_vars

\* The third click on the header of the Key column of a dict of two or more
\* entries, whose first key is not the least, has put it back in insertion
\* order.
C32_Witness ==
    /\ last_op = Op("sort", 0, Asc, 0)
    /\ nops = 3
    /\ data.kind = "dict"
    /\ sort_indicator = <<-1, Asc>>
    /\ keys = data.ks
    /\ Len(keys) >= 2
    /\ keys # Sorted(keys, FALSE, "natsort")

\* C34: while the session is editable, get_value() returns neither the
\* object that was passed to setup nor the object that the data function
\* returned.
C34_GetValueIsAWorkingCopy ==
    ~readonly => CollectionsEditor_get_value.id \notin {PassedId, FetchedId}

\* C35: remove_item, rename_item and duplicate_item on a read-only view
\* leave the model's data as it is, however they were reached.
C35_ReadOnlyViewIsNotEdited ==
    [][(readonly /\ last_op'.op \in {"remove_item", "rename_item",
                                      "duplicate_item"})
          => UNCHANGED data]_vars

\* C38: natsort raises for no text, and the keys it gives for two texts can
\* always be compared: natsort(a) < natsort(b) returns True or False for any
\* two keys a and b of a dict whose keys are all text.
C38_NatsortNeverRaises ==
    last_op.op = "natsort" => outcome.raised = ""

====
